---------------------------- MODULE Spec2Model ----------------------------
(***************************************************************************)
(* Discrete-event model of pycsmaca: the wireless DCF stations            *)
(* (Transmitter, Receiver, ChannelState, Radio, Queue, NetworkSwitch,      *)
(* NetworkService, sources and sinks) wired by the topology builders of    *)
(* wireless_networks.py, run by an event scheduler with FIFO tie-breaking. *)
(* Times are integers in milliseconds; every pending event carries its     *)
(* delay relative to the current simulation time.                          *)
(***************************************************************************)
EXTENDS Integers, Sequences, FiniteSets, TLC

VARIABLES
    net,        \* topology parameters chosen at construction (never change)
    tx,         \* tx[s]: Transmitter of station s
    rx,         \* rx[s]: Receiver of station s, and the frames on the air at
                \* s that nothing has overlapped so far (history)
    channel,    \* channel[s]: ChannelState of station s, and for how long it
                \* has been ready (history)
    queue,      \* queue[s]: Queue / SaturatedQueue of station s
    switch,     \* switch[s]: NetworkSwitch of station s (OSN table)
    source,     \* source[s]: RandomSource / ControlledSource of station s
    sink,       \* sink[s]: Sink of station s
    wired,      \* wired[s]: WiredTransceiver of station s
    bianchi,    \* analytic model: inputs and results of the bianchi.py calls
    cm,         \* ConnectionManager: registration order and peer lists
    events,     \* scheduler queue: pending events, ordered by fire time
    up_sent,    \* history: payloads each Receiver sent over connections['up']
    mock,       \* unit-test harness: packets handled by each mock service
    env,        \* unit-test harness: calls made, frames sent, packets seen, clock
    last,       \* history: the handler that ran last and what it observed
    failed      \* "" or the exception that aborted the simulation

vars == <<net, tx, rx, channel, queue, switch, source, sink, wired, bianchi,
          cm, events, up_sent, mock, env, last, failed>>

-----------------------------------------------------------------------------
(* Bounds of the model *)

MaxStations == 3
MaxPackets == 2
MaxQueueOps == 5
MaxRetries == 2

(* Simulation parameters (sim.params), in bits, metres and milliseconds,   *)
(* as set by the functional tests of the line network.                     *)

PAYLOAD_SIZE == 100
MAC_HEADER == 50
PHY_HEADER == 25
PREAMBLE == 1
BITRATE == 1000
DIFS == 200
SIFS == 100
SLOT == 50
CWMIN == 2
CWMAX == 8
ACK_SIZE == 100
DISTANCE == 500
CONNECTION_RADIUS == 750
SPEED_OF_LIGHT == 10000

(* Inter-arrival intervals a RandomSource may draw (ms). *)
SourceIntervals == {1, 400}

(* Distances (m) between two stations of a collision domain: every station *)
(* lies within connection_radius / 2.1 of the origin.                      *)
DomainDistances == {100, 500}

NetworkKinds == {"domain", "saturated", "line"}

-----------------------------------------------------------------------------
(* Values *)

NoAddress == 0
NoOSN == -1
NoCapacity == -1
NoTimeout == 0
\* Transmitter.__start_service_time is None: no packet is in service.
NoServiceTime == -1

NoData == [sid |-> -1, n |-> 0, dst |-> NoAddress, size |-> 0]

NoPacket == [dst |-> NoAddress, orig |-> NoAddress, snd |-> NoAddress,
             rcv |-> NoAddress, osn |-> NoOSN, data |-> NoData]

NoPDU == [type |-> "NONE", sender |-> NoAddress, receiver |-> NoAddress,
          seqn |-> 0, header_size |-> 0, packet |-> NoPacket]

Min(a, b) == IF a <= b THEN a ELSE b

Abs(a) == IF a < 0 THEN -a ELSE a

Stations == 1..net.n

World ==
    [net |-> net, tx |-> tx, rx |-> rx, channel |-> channel, queue |-> queue,
     switch |-> switch, source |-> source, sink |-> sink, wired |-> wired,
     bianchi |-> bianchi, cm |-> cm,
     events |-> events, up_sent |-> up_sent, mock |-> mock, env |-> env,
     last |-> last, failed |-> failed]

Commit(w) ==
    /\ net' = w.net
    /\ tx' = w.tx
    /\ rx' = w.rx
    /\ channel' = w.channel
    /\ queue' = w.queue
    /\ switch' = w.switch
    /\ source' = w.source
    /\ sink' = w.sink
    /\ wired' = w.wired
    /\ bianchi' = w.bianchi
    /\ cm' = w.cm
    /\ events' = w.events
    /\ up_sent' = w.up_sent
    /\ mock' = w.mock
    /\ env' = w.env
    /\ last' = w.last
    /\ failed' = w.failed

Raise(w, what) == IF w.failed = "" THEN [w EXCEPT !.failed = what] ELSE w

-----------------------------------------------------------------------------
(* Event scheduler *)

Event(t, id, fn, sta, conn, msg) ==
    [t |-> t, id |-> id, fn |-> fn, sta |-> sta, conn |-> conn, msg |-> msg]

\* sim.schedule that queues the event ahead of the events of the same time.
Schedule_Lifo(w, delay, id, fn, sta, conn, msg) ==
    LET k == Cardinality({i \in DOMAIN w.events : w.events[i].t < delay})
    IN  [w EXCEPT !.events = SubSeq(@, 1, k)
                             \o <<Event(delay, id, fn, sta, conn, msg)>>
                             \o SubSeq(@, k + 1, Len(@))]

\* sim.schedule(delay, fn, args): the event is queued behind every event that
\* fires no later than it (insertion order breaks ties).
Schedule(w, delay, id, fn, sta, conn, msg) ==
    LET k == Cardinality({i \in DOMAIN w.events : w.events[i].t <= delay})
    IN  [w EXCEPT !.events = SubSeq(@, 1, k)
                             \o <<Event(delay, id, fn, sta, conn, msg)>>
                             \o SubSeq(@, k + 1, Len(@))]

\* sim.cancel(handle): the event never fires; a handle that already fired or
\* was cancelled is ignored.
Cancel(w, id) ==
    [w EXCEPT !.events = SelectSeq(@, LAMBDA e : e.id = 0 \/ e.id # id)]

\* A handle no pending event and no Transmitter.timeout field holds.
FreshId(w) ==
    LET used == {w.events[i].id : i \in DOMAIN w.events}
                \cup {w.tx[s].timeout : s \in DOMAIN w.tx}
    IN  CHOOSE k \in 1..(Cardinality(used) + 1) :
            k \notin used /\ \A j \in 1..(k - 1) : j \in used

\* The scheduler loop takes the first event and advances the clock to it.
\* A Transmitter in service keeps sim.stime - __start_service_time, which
\* grows with the clock; so does the time for which a channel has been
\* ready (history, counted up to DIFS).
Pop(w) ==
    LET e == Head(w.events)
    IN  [w EXCEPT !.events = [i \in 1..(Len(@) - 1) |->
                                 [@[i + 1] EXCEPT !.t = @ - e.t]],
                  !.tx = [s \in DOMAIN @ |->
                             IF @[s].service_age = NoServiceTime
                             THEN @[s]
                             ELSE [@[s] EXCEPT !.service_age = @ + e.t]],
                  !.channel = [s \in DOMAIN @ |->
                                  [@[s] EXCEPT !.ready_for =
                                       IF @ + e.t > DIFS THEN DIFS
                                       ELSE @ + e.t]]]

\* connection.send(message): a zero-delay handle_message event at the peer,
\* which receives the name of its own end of the connection.
Send(w, fn, sta, conn, msg) == Schedule(w, 0, 0, fn, sta, conn, msg)

-----------------------------------------------------------------------------
(* Queue (queues.py).  A connection of the queue is named by the handler   *)
(* of the connected service: [fn |-> ..., sta |-> ...].                    *)

NewQueue(capacity, saturated, connections) ==
    [capacity |-> capacity, saturated |-> saturated,
     connections |-> connections, packets |-> <<>>, data_requests |-> <<>>,
     num_dropped |-> 0, num_arrived |-> 0, size_trace |-> <<0>>]

Queue_empty(q) == Len(q.packets) = 0

Queue_full(q) == Len(q.packets) = q.capacity

\* Queue.push that serves the newest outstanding request.
Queue_push_LastRequest(w, s, packet) ==
    LET q == w.queue[s]
        w1 == [w EXCEPT !.queue[s].num_arrived = @ + 1]
    IN  IF q.data_requests # <<>>
        THEN LET n == Len(q.data_requests)
                 connection == q.data_requests[n]
                 w2 == [w1 EXCEPT !.queue[s].data_requests = SubSeq(@, 1, n - 1)]
             IN  Send(w2, connection.fn, connection.sta, "queue", packet)
        ELSE IF q.capacity = NoCapacity \/ Len(q.packets) < q.capacity
        THEN [w1 EXCEPT !.queue[s].packets = Append(@, packet),
                        !.queue[s].size_trace = Append(@, Len(q.packets) + 1)]
        ELSE [w1 EXCEPT !.queue[s].num_dropped = @ + 1]

\* Queue.push that never drops: a full queue stores the packet too.
Queue_push_Unbounded(w, s, packet) ==
    LET q == w.queue[s]
        w1 == [w EXCEPT !.queue[s].num_arrived = @ + 1]
    IN  IF q.data_requests # <<>>
        THEN LET connection == Head(q.data_requests)
                 w2 == [w1 EXCEPT !.queue[s].data_requests = Tail(@)]
             IN  Send(w2, connection.fn, connection.sta, "queue", packet)
        ELSE [w1 EXCEPT !.queue[s].packets = Append(@, packet),
                        !.queue[s].size_trace = Append(@, Len(q.packets) + 1)]

\* Queue.push that stores the packet also when a request is waiting.
Queue_push_Stores(w, s, packet) ==
    LET q == w.queue[s]
        w1 == [w EXCEPT !.queue[s].num_arrived = @ + 1]
    IN  IF q.capacity = NoCapacity \/ Len(q.packets) < q.capacity
        THEN [w1 EXCEPT !.queue[s].packets = Append(@, packet),
                        !.queue[s].size_trace = Append(@, Len(q.packets) + 1)]
        ELSE [w1 EXCEPT !.queue[s].num_dropped = @ + 1]

Queue_push(w, s, packet) ==
    LET q == w.queue[s]
        w1 == [w EXCEPT !.queue[s].num_arrived = @ + 1]
    IN  IF q.data_requests # <<>>
        THEN LET connection == Head(q.data_requests)
                 w2 == [w1 EXCEPT !.queue[s].data_requests = Tail(@)]
             IN  Send(w2, connection.fn, connection.sta, "queue", packet)
        ELSE IF q.capacity = NoCapacity \/ Len(q.packets) < q.capacity
        THEN [w1 EXCEPT !.queue[s].packets = Append(@, packet),
                        !.queue[s].size_trace = Append(@, Len(q.packets) + 1)]
        ELSE [w1 EXCEPT !.queue[s].num_dropped = @ + 1]

\* Queue.pop that takes the newest packet instead of the oldest.
Queue_pop_Newest(w, s) ==
    IF Queue_empty(w.queue[s])
    THEN Raise(w, "ValueError: pop from empty Queue")
    ELSE [w EXCEPT !.queue[s].packets = SubSeq(@, 1, Len(@) - 1),
                   !.queue[s].size_trace =
                       Append(@, Len(w.queue[s].packets) - 1)]

\* pop() on a queue that holds a packet: the world after it (the packet
\* returned is Head(w.queue[s].packets)).
Queue_pop(w, s) ==
    IF Queue_empty(w.queue[s])
    THEN Raise(w, "ValueError: pop from empty Queue")
    ELSE [w EXCEPT !.queue[s].packets = Tail(@),
                   !.queue[s].size_trace =
                       Append(@, Len(w.queue[s].packets) - 1)]

\* Queue.get_next that runs the handler of the service inside the call.
Queue_get_next_Inline(w, s, service) ==
    IF service \notin w.queue[s].connections
    THEN Raise(w, "ValueError: connection not found")
    ELSE IF ~Queue_empty(w.queue[s])
    THEN [Queue_pop(w, s) EXCEPT
              !.mock[service.sta] = Append(@, Head(w.queue[s].packets))]
    ELSE [w EXCEPT !.queue[s].data_requests = Append(@, service)]

Queue_get_next(w, s, service) ==
    IF service \notin w.queue[s].connections
    THEN Raise(w, "ValueError: connection not found")
    ELSE IF ~Queue_empty(w.queue[s])
    THEN Send(Queue_pop(w, s), service.fn, service.sta, "queue",
              Head(w.queue[s].packets))
    ELSE [w EXCEPT !.queue[s].data_requests = Append(@, service)]

-----------------------------------------------------------------------------
(* Application layer (app_layer.py) *)

\* The `data_size` iterable of a source yields MaxPackets sizes.
Source_has_next_size(w, s) == w.source[s].num_packets_sent < MaxPackets

\* _SourceBase._generate(): the world after it; it returns
\* Source_has_next_size(w, s).
Source_generate(w, s) ==
    IF ~Source_has_next_size(w, s)
    THEN w
    ELSE LET src == w.source[s]
             app_data == [sid |-> src.source_id, n |-> src.num_packets_sent + 1,
                          dst |-> src.dest_addr,
                          size |-> w.net.payload_size]
             w1 == Send(w, "NetworkService.handle_message", s, "source",
                        app_data)
         IN  [w1 EXCEPT !.source[s].num_packets_sent = @ + 1]

\* RandomSource._generate(): the next arrival is scheduled after `interval`
\* if a packet was generated.
RandomSource_generate(w, s, interval) ==
    IF Source_has_next_size(w, s)
    THEN Schedule(Source_generate(w, s), interval, 0,
                  "RandomSource._generate", s, "", NoData)
    ELSE w

ControlledSource_get_next(w, s) == Source_generate(w, s)

Sink_handle_message(w, s, app_data) ==
    [w EXCEPT !.sink[s].received = Append(@, app_data)]

-----------------------------------------------------------------------------
(* SaturatedQueue (queues.py) *)

\* SaturatedQueue.get_next that asks the source for two packets.
SaturatedQueue_get_next_Twice(w, s, service) ==
    IF Queue_empty(w.queue[s])
    THEN Queue_get_next(
             ControlledSource_get_next(ControlledSource_get_next(w, s), s),
             s, service)
    ELSE Queue_get_next(w, s, service)

SaturatedQueue_get_next(w, s, service) ==
    IF Queue_empty(w.queue[s])
    THEN Queue_get_next(ControlledSource_get_next(w, s), s, service)
    ELSE Queue_get_next(w, s, service)

\* transmitter.queue.get_next(transmitter): bound to the class of the queue.
GetNext(w, s, service) ==
    IF w.queue[s].saturated
    THEN SaturatedQueue_get_next(w, s, service)
    ELSE Queue_get_next(w, s, service)

-----------------------------------------------------------------------------
(* Network layer (network_layer.py) *)

NetworkService_handle_message(w, s, message, conn) ==
    IF conn = "source"
    THEN LET packet == [NoPacket EXCEPT !.dst = message.dst,
                                        !.data = message]
         IN  Send(w, "NetworkSwitch.handle_message", s, "user", packet)
    ELSE IF conn = "network"
    THEN Send(w, "Sink.handle_message", s, "network", message.data)
    ELSE w

\* SwitchTable.get(dst): the link [connection, next_hop] written by the
\* topology builder, or next_hop = NoAddress when there is no record.
SwitchTable_get(w, s, dst) ==
    IF w.net.kind = "line"
    THEN IF s < w.net.n /\ dst = w.net.n
         THEN [connection |-> "if0", next_hop |-> s + 1]
         ELSE [connection |-> "", next_hop |-> NoAddress]
    ELSE IF s > 1 /\ dst = 1
         THEN [connection |-> "if0", next_hop |-> 1]
         ELSE [connection |-> "", next_hop |-> NoAddress]

\* Step 1 of NetworkSwitch.handle_message that lets a packet pass whose osn
\* equals the stored one.
NetworkSwitch_is_old_Strict(w, s, message) ==
    /\ message.orig # NoAddress
    /\ w.switch[s].osn_table[message.orig] # NoOSN
    /\ message.osn < w.switch[s].osn_table[message.orig]

\* Step 1 of NetworkSwitch.handle_message: TRUE when the packet is too old.
NetworkSwitch_is_old(w, s, message) ==
    /\ message.orig # NoAddress
    /\ w.switch[s].osn_table[message.orig] # NoOSN
    /\ message.osn <= w.switch[s].osn_table[message.orig]

\* NetworkSwitch.handle_message that does not increment the OSN of the
\* packets the user originates.
NetworkSwitch_handle_message_ConstantOsn(w, s, message, conn) ==
    IF message.orig # NoAddress /\ message.osn = NoOSN
    THEN Raise(w, "AssertionError: message.osn is not None")
    ELSE IF NetworkSwitch_is_old(w, s, message)
    THEN w
    ELSE
    LET w1 == IF message.orig # NoAddress
              THEN [w EXCEPT !.switch[s].osn_table[message.orig] = message.osn]
              ELSE w
        link == SwitchTable_get(w1, s, message.dst)
    IN  IF message.dst = s
        THEN Send(w1, "NetworkService.handle_message", s, "network", message)
        ELSE IF link.next_hop = NoAddress
        THEN w1
        ELSE IF conn = "user"
        THEN LET osn == IF w1.switch[s].osn_table[s] = NoOSN
                        THEN 0
                        ELSE w1.switch[s].osn_table[s]
                 w2 == [w1 EXCEPT !.switch[s].osn_table[s] = osn]
                 m == [message EXCEPT !.orig = s, !.osn = osn,
                                      !.rcv = link.next_hop, !.snd = s]
             IN  Send(w2, "WirelessInterface.handle_message", s, "user", m)
        ELSE IF message.orig = NoAddress
        THEN Raise(w1, "AssertionError: originator_address is not None")
        ELSE LET m == [message EXCEPT !.rcv = link.next_hop, !.snd = s]
             IN  Send(w1, "WirelessInterface.handle_message", s, "user", m)

\* NetworkSwitch.handle_message without step 1: no packet is discarded as old.
NetworkSwitch_handle_message_NoOsnCheck(w, s, message, conn) ==
    IF message.orig # NoAddress /\ message.osn = NoOSN
    THEN Raise(w, "AssertionError: message.osn is not None")
    ELSE
    LET w1 == IF message.orig # NoAddress
              THEN [w EXCEPT !.switch[s].osn_table[message.orig] = message.osn]
              ELSE w
        link == SwitchTable_get(w1, s, message.dst)
    IN  IF message.dst = s
        THEN Send(w1, "NetworkService.handle_message", s, "network", message)
        ELSE IF link.next_hop = NoAddress
        THEN w1
        ELSE IF conn = "user"
        THEN LET osn == IF w1.switch[s].osn_table[s] = NoOSN
                        THEN 0
                        ELSE w1.switch[s].osn_table[s] + 1
                 w2 == [w1 EXCEPT !.switch[s].osn_table[s] = osn]
                 m == [message EXCEPT !.orig = s, !.osn = osn,
                                      !.rcv = link.next_hop, !.snd = s]
             IN  Send(w2, "WirelessInterface.handle_message", s, "user", m)
        ELSE IF message.orig = NoAddress
        THEN Raise(w1, "AssertionError: originator_address is not None")
        ELSE LET m == [message EXCEPT !.rcv = link.next_hop, !.snd = s]
             IN  Send(w1, "WirelessInterface.handle_message", s, "user", m)

NetworkSwitch_handle_message(w, s, message, conn) ==
    IF message.orig # NoAddress /\ message.osn = NoOSN
    THEN Raise(w, "AssertionError: message.osn is not None")
    ELSE IF NetworkSwitch_is_old(w, s, message)
    THEN w
    ELSE
    LET w1 == IF message.orig # NoAddress
              THEN [w EXCEPT !.switch[s].osn_table[message.orig] = message.osn]
              ELSE w
        link == SwitchTable_get(w1, s, message.dst)
    IN  IF message.dst = s
        THEN Send(w1, "NetworkService.handle_message", s, "network", message)
        ELSE IF link.next_hop = NoAddress
        THEN w1
        ELSE IF conn = "user"
        THEN LET osn == IF w1.switch[s].osn_table[s] = NoOSN
                        THEN 0
                        ELSE w1.switch[s].osn_table[s] + 1
                 w2 == [w1 EXCEPT !.switch[s].osn_table[s] = osn]
                 m == [message EXCEPT !.orig = s, !.osn = osn,
                                      !.rcv = link.next_hop, !.snd = s]
             IN  Send(w2, "WirelessInterface.handle_message", s, "user", m)
        ELSE IF message.orig = NoAddress
        THEN Raise(w1, "AssertionError: originator_address is not None")
        ELSE LET m == [message EXCEPT !.rcv = link.next_hop, !.snd = s]
             IN  Send(w1, "WirelessInterface.handle_message", s, "user", m)

-----------------------------------------------------------------------------
(* WirelessInterface (wireless_interface.py) *)

WirelessInterface_handle_message(w, s, message, conn) ==
    IF conn = "user"
    THEN Send(w, "Queue.handle_message", s, "user", message)
    ELSE IF conn = "_receiver"
    THEN Send(w, "NetworkSwitch.handle_message", s, "if0", message)
    ELSE Raise(w, "RuntimeError: unexpected message")

Queue_handle_message(w, s, message) == Queue_push(w, s, message)
-----------------------------------------------------------------------------
(* PDUs and frames (wireless_interface.py, radio.py) *)

DataPDU(packet, header_size, seqn, sender_address, receiver_address) ==
    [type |-> "DATA", sender |-> sender_address,
     receiver |-> receiver_address, seqn |-> seqn,
     header_size |-> header_size, packet |-> packet]

\* Two AckPDU objects are different objects even when their fields agree:
\* `serial` stands for the identity of the object.
AckPDU(header_size, serial, sender_address, receiver_address) ==
    [type |-> "ACK", sender |-> sender_address,
     receiver |-> receiver_address, seqn |-> serial,
     header_size |-> header_size, packet |-> NoPacket]

PDU_size(pdu) ==
    IF pdu.type = "DATA"
    THEN pdu.header_size + pdu.packet.data.size
    ELSE pdu.header_size + ACK_SIZE

\* AirFrame.duration = pdu.size / bitrate + preamble, in ms.
AirFrame_duration(pdu) == (PDU_size(pdu) * 1000) \div BITRATE + PREAMBLE

\* distance / speed_of_light, in ms.
PropagationDelay(w, a, b) == (w.net.dist[a][b] * 1000) \div SPEED_OF_LIGHT

\* Transmitter(sim, max_propagation=conn_radius / speed_of_light), in ms.
MaxPropagation == (CONNECTION_RADIUS * 1000) \div SPEED_OF_LIGHT

-----------------------------------------------------------------------------
(* ConnectionManager (radio.py) *)

RECURSIVE AddRadioLoop(_, _, _)
\* The loop of add_radio over the registered radios `keys[i..]`.
AddRadioLoop(c, radio, i) ==
    IF i > Len(c.keys)
    THEN c
    ELSE LET peer == c.keys[i]
             d == c.dist[peer][radio]
             linked == peer # radio /\ CONNECTION_RADIUS >= d
             known == \E j \in DOMAIN c.peers[peer] : c.peers[peer][j] = radio
             c1 == IF linked
                   THEN [c EXCEPT !.found = Append(@, peer),
                                  !.peers[peer] = IF known THEN @
                                                  ELSE Append(@, radio)]
                   ELSE c
         IN  AddRadioLoop(c1, radio, i + 1)

ConnectionManager_add_radio(w, radio) ==
    LET registered == \E j \in DOMAIN w.cm.keys : w.cm.keys[j] = radio
        keys == IF registered THEN w.cm.keys ELSE Append(w.cm.keys, radio)
        c == AddRadioLoop([keys |-> keys, peers |-> w.cm.peers,
                           dist |-> w.net.dist, found |-> <<>>], radio, 1)
    IN  [w EXCEPT !.cm = [keys |-> keys,
                          peers |-> [c.peers EXCEPT ![radio] = c.found]]]

Radio_register_at_connection_manager(w, s) == ConnectionManager_add_radio(w, s)

-----------------------------------------------------------------------------
(* ChannelState and Transmitter (wireless_interface.py) *)

TxService(s) == [fn |-> "Transmitter.handle_message", sta |-> s]

\* self.timeout = self.sim.schedule(delay, handler)
Transmitter_schedule_timeout(w, s, delay, fn) ==
    LET id == FreshId(w)
    IN  [Schedule(w, delay, id, fn, s, "", NoPDU) EXCEPT !.tx[s].timeout = id]

Transmitter_start(w, s) == GetNext(w, s, TxService(s))

\* Transmitter.channel_ready that resumes the slot countdown: the timer it
\* arms lasts one slot.
Transmitter_channel_ready_Resumes(w, s) ==
    IF w.tx[s].state = "BUSY"
    THEN [Transmitter_schedule_timeout(w, s, SLOT,
              "Transmitter.handle_backoff_timeout")
          EXCEPT !.tx[s].state = "BACKOFF"]
    ELSE w

Transmitter_channel_ready(w, s) ==
    IF w.tx[s].state = "BUSY"
    THEN [Transmitter_schedule_timeout(w, s, DIFS,
              "Transmitter.handle_backoff_timeout")
          EXCEPT !.tx[s].state = "BACKOFF"]
    ELSE w

\* Transmitter.channel_busy that leaves the DIFS or slot timer pending.
Transmitter_channel_busy_KeepsTimer(w, s) ==
    IF w.tx[s].state = "BACKOFF"
    THEN [w EXCEPT !.tx[s].state = "BUSY"]
    ELSE w

Transmitter_channel_busy(w, s) ==
    IF w.tx[s].state = "BACKOFF"
    THEN [Cancel(w, w.tx[s].timeout) EXCEPT !.tx[s].state = "BUSY"]
    ELSE w

ChannelState_set_ready(w, s) ==
    Transmitter_channel_ready(
        [w EXCEPT !.channel[s].is_busy = FALSE,
                  !.channel[s].ready_for = IF w.channel[s].is_busy THEN 0 ELSE @],
        s)

ChannelState_set_busy(w, s) ==
    Transmitter_channel_busy([w EXCEPT !.channel[s].is_busy = TRUE,
                                       !.channel[s].ready_for = 0], s)

\* The branch shared by handle_message and handle_ack_timeout.
Transmitter_enter_backoff(w, s) ==
    IF w.channel[s].is_busy
    THEN [w EXCEPT !.tx[s].state = "BUSY"]
    ELSE [Transmitter_schedule_timeout(w, s, DIFS,
              "Transmitter.handle_backoff_timeout")
          EXCEPT !.tx[s].state = "BACKOFF"]

\* Statistic.append(value). No handler reads the values of a Statistic, so
\* a world keeps them only when its env.statistics is set, and keeps the
\* number of appends (n_backoff, n_service_time, n_retries) always.
Statistic_append(w, values, value) ==
    IF w.env.statistics THEN Append(values, value) ELSE values

\* self.__start_service_time = self.sim.stime, kept as the time in service.
StartService(w) == IF w.env.statistics THEN 0 ELSE NoServiceTime

\* Transmitter.handle_message that keeps the window the previous packet
\* reached.
Transmitter_handle_message_KeepsWindow(w, s, packet, conn, backoff) ==
    IF conn # "queue"
    THEN Raise(w, "RuntimeError: unexpected handle_message")
    ELSE IF w.tx[s].state # "IDLE"
    THEN Raise(w, "AssertionError: Transmitter.handle_message not IDLE")
    ELSE LET pdu == DataPDU(packet, PHY_HEADER + MAC_HEADER, w.tx[s].seqn,
                            s, packet.rcv)
             w1 == [w EXCEPT !.tx[s].cw = IF @ > CWMAX THEN CWMIN ELSE @,
                             !.tx[s].backoff = backoff,
                             !.tx[s].num_retries = 1,
                             !.tx[s].pdu = pdu,
                             !.tx[s].seqn = @ + 1,
                             !.tx[s].service_age = StartService(w),
                             !.tx[s].backoff_vector =
                                 Statistic_append(w, @, backoff),
                             !.tx[s].n_backoff = @ + 1]
         IN  Transmitter_enter_backoff(w1, s)

\* `backoff` is the value randint(0, cw) returns.
Transmitter_handle_message(w, s, packet, conn, backoff) ==
    IF conn # "queue"
    THEN Raise(w, "RuntimeError: unexpected handle_message")
    ELSE IF w.tx[s].state # "IDLE"
    THEN Raise(w, "AssertionError: Transmitter.handle_message not IDLE")
    ELSE LET pdu == DataPDU(packet, PHY_HEADER + MAC_HEADER, w.tx[s].seqn,
                            s, packet.rcv)
             w1 == [w EXCEPT !.tx[s].cw = CWMIN,
                             !.tx[s].backoff = backoff,
                             !.tx[s].num_retries = 1,
                             !.tx[s].pdu = pdu,
                             !.tx[s].seqn = @ + 1,
                             !.tx[s].service_age = StartService(w),
                             !.tx[s].backoff_vector =
                                 Statistic_append(w, @, backoff),
                             !.tx[s].n_backoff = @ + 1]
         IN  Transmitter_enter_backoff(w1, s)

\* Transmitter.finish_transmit that asks the queue for the next packet as
\* soon as the frame is sent, before the acknowledgement.
Transmitter_finish_transmit_Pipelined(w, s) ==
    IF w.tx[s].state = "TX"
    THEN LET ack_duration ==
                 ((ACK_SIZE + MAC_HEADER + PHY_HEADER) * 1000) \div BITRATE
                 + PREAMBLE + 6 * MaxPropagation
             w1 == [Transmitter_schedule_timeout(w, s, SIFS + ack_duration,
                        "Transmitter.handle_ack_timeout")
                    EXCEPT !.tx[s].state = "WAIT_ACK"]
         IN  GetNext(w1, s, TxService(s))
    ELSE w

\* Transmitter.finish_transmit whose ACK timeout has no propagation margin.
Transmitter_finish_transmit_NoMargin(w, s) ==
    IF w.tx[s].state = "TX"
    THEN LET ack_duration ==
                 ((ACK_SIZE + MAC_HEADER + PHY_HEADER) * 1000) \div BITRATE
                 + PREAMBLE
         IN  [Transmitter_schedule_timeout(w, s, SIFS + ack_duration,
                  "Transmitter.handle_ack_timeout")
              EXCEPT !.tx[s].state = "WAIT_ACK"]
    ELSE w

Transmitter_finish_transmit(w, s) ==
    IF w.tx[s].state = "TX"
    THEN LET ack_duration ==
                 ((ACK_SIZE + MAC_HEADER + PHY_HEADER) * 1000) \div BITRATE
                 + PREAMBLE + 6 * MaxPropagation
         IN  [Transmitter_schedule_timeout(w, s, SIFS + ack_duration,
                  "Transmitter.handle_ack_timeout")
              EXCEPT !.tx[s].state = "WAIT_ACK"]
    ELSE w

\* Transmitter.acknowledged that leaves the ACK timeout pending.
Transmitter_acknowledged_KeepsTimer(w, s) ==
    IF w.tx[s].state = "WAIT_ACK"
    THEN LET w1 == [w EXCEPT
                        !.tx[s].pdu = NoPDU,
                        !.tx[s].state = "IDLE",
                        !.tx[s].num_sent = @ + 1,
                        !.tx[s].n_service_time = @ + 1,
                        !.tx[s].service_time =
                            Statistic_append(w, @, w.tx[s].service_age),
                        !.tx[s].service_age = NoServiceTime,
                        !.tx[s].n_retries = @ + 1,
                        !.tx[s].num_retries = 0]
         IN  GetNext(w1, s, TxService(s))
    ELSE w

\* Transmitter.acknowledged that keeps the acknowledged PDU.
Transmitter_acknowledged_KeepsPdu(w, s) ==
    IF w.tx[s].state = "WAIT_ACK"
    THEN LET w1 == [Cancel(w, w.tx[s].timeout) EXCEPT
                        !.tx[s].state = "IDLE",
                        !.tx[s].num_sent = @ + 1,
                        !.tx[s].n_service_time = @ + 1,
                        !.tx[s].service_time =
                            Statistic_append(w, @, w.tx[s].service_age),
                        !.tx[s].service_age = NoServiceTime,
                        !.tx[s].n_retries = @ + 1,
                        !.tx[s].num_retries = 0]
         IN  GetNext(w1, s, TxService(s))
    ELSE w

\* Transmitter.acknowledged without the check of the state.
Transmitter_acknowledged_AnyState(w, s) ==
    LET w1 == [Cancel(w, w.tx[s].timeout) EXCEPT
                   !.tx[s].pdu = NoPDU,
                   !.tx[s].state = "IDLE",
                   !.tx[s].num_sent = @ + 1,
                   !.tx[s].n_service_time = @ + 1,
                   !.tx[s].service_time =
                       Statistic_append(w, @, w.tx[s].service_age),
                   !.tx[s].service_age = NoServiceTime,
                   !.tx[s].n_retries = @ + 1,
                   !.tx[s].num_retries = 0]
    IN  GetNext(w1, s, TxService(s))

\* Transmitter.acknowledged that does not count the acknowledged packet.
Transmitter_acknowledged_NoCount(w, s) ==
    IF w.tx[s].state = "WAIT_ACK"
    THEN LET w1 == [Cancel(w, w.tx[s].timeout) EXCEPT
                        !.tx[s].pdu = NoPDU,
                        !.tx[s].state = "IDLE",
                        !.tx[s].n_service_time = @ + 1,
                        !.tx[s].service_time =
                            Statistic_append(w, @, w.tx[s].service_age),
                        !.tx[s].service_age = NoServiceTime,
                        !.tx[s].n_retries = @ + 1,
                        !.tx[s].num_retries = 0]
         IN  GetNext(w1, s, TxService(s))
    ELSE w

Transmitter_acknowledged(w, s) ==
    IF w.tx[s].state = "WAIT_ACK"
    THEN LET w1 == [Cancel(w, w.tx[s].timeout) EXCEPT
                        !.tx[s].pdu = NoPDU,
                        !.tx[s].state = "IDLE",
                        !.tx[s].num_sent = @ + 1,
                        !.tx[s].n_service_time = @ + 1,
                        !.tx[s].service_time =
                            Statistic_append(w, @, w.tx[s].service_age),
                        !.tx[s].service_age = NoServiceTime,
                        !.tx[s].n_retries = @ + 1,
                        !.tx[s].num_retries = 0]
         IN  GetNext(w1, s, TxService(s))
    ELSE w

\* Transmitter.handle_ack_timeout that doubles the window without the cap.
Transmitter_handle_ack_timeout_Uncapped(w, s, backoff) ==
    IF w.tx[s].state # "WAIT_ACK"
    THEN Raise(w, "AssertionError: handle_ack_timeout not WAIT_ACK")
    ELSE LET w1 == [w EXCEPT !.tx[s].num_retries = @ + 1,
                             !.tx[s].cw = 2 * @,
                             !.tx[s].backoff = backoff,
                             !.tx[s].backoff_vector =
                                 Statistic_append(w, @, backoff),
                             !.tx[s].n_backoff = @ + 1]
         IN  Transmitter_enter_backoff(w1, s)

\* `backoff` is the value randint(0, cw) returns for the doubled window.
Transmitter_handle_ack_timeout(w, s, backoff) ==
    IF w.tx[s].state # "WAIT_ACK"
    THEN Raise(w, "AssertionError: handle_ack_timeout not WAIT_ACK")
    ELSE LET w1 == [w EXCEPT !.tx[s].num_retries = @ + 1,
                             !.tx[s].cw = Min(2 * @, CWMAX),
                             !.tx[s].backoff = backoff,
                             !.tx[s].backoff_vector =
                                 Statistic_append(w, @, backoff),
                             !.tx[s].n_backoff = @ + 1]
         IN  Transmitter_enter_backoff(w1, s)
-----------------------------------------------------------------------------
(* Receiver (wireless_interface.py) *)

\* The `state` property setter: entering COLLIDED from another state counts
\* one collision.
\* The `state` setter that counts a collision on leaving COLLIDED as well.
Receiver_set_state_CountsExit(w, s, state) ==
    IF state # w.rx[s].state
    THEN [w EXCEPT !.rx[s].state = state,
                   !.rx[s].num_collisions =
                       IF state = "COLLIDED" \/ w.rx[s].state = "COLLIDED"
                       THEN @ + 1 ELSE @]
    ELSE w

Receiver_set_state(w, s, state) ==
    IF state # w.rx[s].state
    THEN [w EXCEPT !.rx[s].state = state,
                   !.rx[s].num_collisions =
                       IF state = "COLLIDED" THEN @ + 1 ELSE @]
    ELSE w

\* Receiver.start_receive that buffers the PDU only when it changes state.
Receiver_start_receive_Unbuffered(w, s, pdu) ==
    IF pdu \in w.rx[s].rxbuf
    THEN Raise(w, "RuntimeError: PDU is already in the buffer")
    ELSE LET st == w.rx[s].state
         IN  IF st = "IDLE" /\ w.rx[s].rxbuf = {}
             THEN ChannelState_set_busy(Receiver_set_state(w, s, "RX"), s)
             ELSE IF st = "RX" \/ (st = "IDLE" /\ w.rx[s].rxbuf # {})
             THEN [Receiver_set_state(w, s, "COLLIDED")
                   EXCEPT !.rx[s].rxbuf = @ \cup {pdu}]
             ELSE [w EXCEPT !.rx[s].rxbuf = @ \cup {pdu}]

\* Receiver.start_receive that keeps receiving the first frame when a second
\* one starts.
Receiver_start_receive_Capture(w, s, pdu) ==
    IF pdu \in w.rx[s].rxbuf
    THEN Raise(w, "RuntimeError: PDU is already in the buffer")
    ELSE LET st == w.rx[s].state
             w1 == IF st = "IDLE" /\ w.rx[s].rxbuf = {}
                   THEN ChannelState_set_busy(Receiver_set_state(w, s, "RX"), s)
                   ELSE IF st = "IDLE" /\ w.rx[s].rxbuf # {}
                   THEN Receiver_set_state(w, s, "COLLIDED")
                   ELSE w
         IN  [w1 EXCEPT !.rx[s].rxbuf = @ \cup {pdu}]

Receiver_start_receive(w, s, pdu) ==
    IF pdu \in w.rx[s].rxbuf
    THEN Raise(w, "RuntimeError: PDU is already in the buffer")
    ELSE LET st == w.rx[s].state
             w1 == IF st = "IDLE" /\ w.rx[s].rxbuf = {}
                   THEN ChannelState_set_busy(Receiver_set_state(w, s, "RX"), s)
                   ELSE IF st = "RX" \/ (st = "IDLE" /\ w.rx[s].rxbuf # {})
                   THEN Receiver_set_state(w, s, "COLLIDED")
                   ELSE w
         IN  [w1 EXCEPT !.rx[s].rxbuf = @ \cup {pdu}]

\* Receiver.finish_receive that takes every frame as addressed to the station.
Receiver_finish_receive_Promiscuous(w, s, pdu) ==
    IF pdu \notin w.rx[s].rxbuf
    THEN Raise(w, "AssertionError: pdu in rxbuf")
    ELSE
    LET w1 == [w EXCEPT !.rx[s].rxbuf = @ \ {pdu}]
        st == w.rx[s].state
    IN  IF st = "RX"
        THEN IF w1.rx[s].rxbuf # {}
             THEN Raise(w1, "AssertionError: not rxbuf")
             ELSE IF pdu.receiver = pdu.receiver
             THEN IF pdu.type = "DATA"
                  THEN LET w2 == Receiver_set_state(w1, s, "WAIT_SEND_ACK")
                           w3 == [w2 EXCEPT !.rx[s].cur_tx_pdu = pdu]
                       IN  Schedule(w3, SIFS, 0, "Receiver.handle_timeout",
                                    s, "", NoPDU)
                  ELSE IF pdu.type = "ACK"
                  THEN LET w2 == Transmitter_acknowledged(w1, s)
                           w3 == Receiver_set_state(w2, s, "IDLE")
                       IN  ChannelState_set_ready(w3, s)
                  ELSE Raise(w1, "RuntimeError: unsupported packet type")
             ELSE ChannelState_set_ready(Receiver_set_state(w1, s, "IDLE"), s)
        ELSE IF st = "COLLIDED"
        THEN IF w1.rx[s].rxbuf = {}
             THEN ChannelState_set_ready(Receiver_set_state(w1, s, "IDLE"), s)
             ELSE w1
        ELSE w1

\* Receiver.finish_receive that marks the channel ready before the ACK is sent.
Receiver_finish_receive_ReadyEarly(w, s, pdu) ==
    IF pdu \notin w.rx[s].rxbuf
    THEN Raise(w, "AssertionError: pdu in rxbuf")
    ELSE
    LET w1 == [w EXCEPT !.rx[s].rxbuf = @ \ {pdu}]
        st == w.rx[s].state
    IN  IF st = "RX"
        THEN IF w1.rx[s].rxbuf # {}
             THEN Raise(w1, "AssertionError: not rxbuf")
             ELSE IF pdu.receiver = s
             THEN IF pdu.type = "DATA"
                  THEN LET w2 == ChannelState_set_ready(
                                     Receiver_set_state(w1, s,
                                                        "WAIT_SEND_ACK"), s)
                           w3 == [w2 EXCEPT !.rx[s].cur_tx_pdu = pdu]
                       IN  Schedule(w3, SIFS, 0, "Receiver.handle_timeout",
                                    s, "", NoPDU)
                  ELSE IF pdu.type = "ACK"
                  THEN LET w2 == Transmitter_acknowledged(w1, s)
                           w3 == Receiver_set_state(w2, s, "IDLE")
                       IN  ChannelState_set_ready(w3, s)
                  ELSE Raise(w1, "RuntimeError: unsupported packet type")
             ELSE ChannelState_set_ready(Receiver_set_state(w1, s, "IDLE"), s)
        ELSE IF st = "COLLIDED"
        THEN IF w1.rx[s].rxbuf = {}
             THEN ChannelState_set_ready(Receiver_set_state(w1, s, "IDLE"), s)
             ELSE w1
        ELSE w1

Receiver_finish_receive(w, s, pdu) ==
    IF pdu \notin w.rx[s].rxbuf
    THEN Raise(w, "AssertionError: pdu in rxbuf")
    ELSE
    LET w1 == [w EXCEPT !.rx[s].rxbuf = @ \ {pdu}]
        st == w.rx[s].state
    IN  IF st = "RX"
        THEN IF w1.rx[s].rxbuf # {}
             THEN Raise(w1, "AssertionError: not rxbuf")
             ELSE IF pdu.receiver = s
             THEN IF pdu.type = "DATA"
                  THEN LET w2 == Receiver_set_state(w1, s, "WAIT_SEND_ACK")
                           w3 == [w2 EXCEPT !.rx[s].cur_tx_pdu = pdu]
                       IN  Schedule(w3, SIFS, 0, "Receiver.handle_timeout",
                                    s, "", NoPDU)
                  ELSE IF pdu.type = "ACK"
                  THEN LET w2 == Transmitter_acknowledged(w1, s)
                           w3 == Receiver_set_state(w2, s, "IDLE")
                       IN  ChannelState_set_ready(w3, s)
                  ELSE Raise(w1, "RuntimeError: unsupported packet type")
             ELSE ChannelState_set_ready(Receiver_set_state(w1, s, "IDLE"), s)
        ELSE IF st = "COLLIDED"
        THEN IF w1.rx[s].rxbuf = {}
             THEN ChannelState_set_ready(Receiver_set_state(w1, s, "IDLE"), s)
             ELSE w1
        ELSE w1

Receiver_start_transmit(w, s) ==
    LET st == w.rx[s].state
        w1 == IF st = "IDLE"
              THEN Receiver_set_state(w, s, "TX1")
              ELSE IF st \in {"RX", "COLLIDED"}
              THEN Receiver_set_state(w, s, "TX2")
              ELSE w
    IN  IF w1.rx[s].state = "WAIT_SEND_ACK"
        THEN Raise(w1, "AssertionError: start_transmit in WAIT_SEND_ACK")
        ELSE w1

\* Receiver.finish_transmit that leaves TX1 for COLLIDED without looking at
\* the reception buffer.
Receiver_finish_transmit_Unchecked(w, s) ==
    LET st == w.rx[s].state
    IN  IF st = "TX1"
        THEN Receiver_set_state(ChannelState_set_busy(w, s), s, "COLLIDED")
        ELSE IF st = "TX2"
        THEN IF w.rx[s].rxbuf # {}
             THEN Receiver_set_state(w, s, "COLLIDED")
             ELSE Receiver_set_state(ChannelState_set_ready(w, s), s, "IDLE")
        ELSE IF st = "SEND_ACK"
        THEN LET payload == w.rx[s].cur_tx_pdu.packet
                 w1 == Send(w, "WirelessInterface.handle_message", s,
                            "_receiver", payload)
                 w2 == [w1 EXCEPT !.up_sent[s] = Append(@, payload),
                                  !.rx[s].num_received = @ + 1,
                                  !.rx[s].cur_tx_pdu = NoPDU]
             IN  Receiver_set_state(ChannelState_set_ready(w2, s), s, "IDLE")
        ELSE w

\* Receiver.finish_transmit that leaves TX1 for COLLIDED without marking the
\* channel busy.
Receiver_finish_transmit_Silent(w, s) ==
    LET st == w.rx[s].state
    IN  IF st = "TX1"
        THEN IF w.rx[s].rxbuf # {}
             THEN Receiver_set_state(w, s, "COLLIDED")
             ELSE Receiver_set_state(w, s, "IDLE")
        ELSE IF st = "TX2"
        THEN IF w.rx[s].rxbuf # {}
             THEN Receiver_set_state(w, s, "COLLIDED")
             ELSE Receiver_set_state(ChannelState_set_ready(w, s), s, "IDLE")
        ELSE IF st = "SEND_ACK"
        THEN LET payload == w.rx[s].cur_tx_pdu.packet
                 w1 == Send(w, "WirelessInterface.handle_message", s,
                            "_receiver", payload)
                 w2 == [w1 EXCEPT !.up_sent[s] = Append(@, payload),
                                  !.rx[s].num_received = @ + 1,
                                  !.rx[s].cur_tx_pdu = NoPDU]
             IN  Receiver_set_state(ChannelState_set_ready(w2, s), s, "IDLE")
        ELSE w

\* Receiver.finish_transmit that keeps the reference to the acknowledged PDU.
Receiver_finish_transmit_KeepsPdu(w, s) ==
    LET st == w.rx[s].state
    IN  IF st = "TX1"
        THEN IF w.rx[s].rxbuf # {}
             THEN Receiver_set_state(ChannelState_set_busy(w, s), s, "COLLIDED")
             ELSE Receiver_set_state(w, s, "IDLE")
        ELSE IF st = "TX2"
        THEN IF w.rx[s].rxbuf # {}
             THEN Receiver_set_state(w, s, "COLLIDED")
             ELSE Receiver_set_state(ChannelState_set_ready(w, s), s, "IDLE")
        ELSE IF st = "SEND_ACK"
        THEN LET payload == w.rx[s].cur_tx_pdu.packet
                 w1 == Send(w, "WirelessInterface.handle_message", s,
                            "_receiver", payload)
                 w2 == [w1 EXCEPT !.up_sent[s] = Append(@, payload),
                                  !.rx[s].num_received = @ + 1]
             IN  Receiver_set_state(ChannelState_set_ready(w2, s), s, "IDLE")
        ELSE w

\* Receiver.finish_transmit that leaves TX1 for RX: it goes on receiving the
\* frame that started during the transmission.
Receiver_finish_transmit_Resumes(w, s) ==
    LET st == w.rx[s].state
    IN  IF st = "TX1"
        THEN IF w.rx[s].rxbuf # {}
             THEN Receiver_set_state(ChannelState_set_busy(w, s), s, "RX")
             ELSE Receiver_set_state(w, s, "IDLE")
        ELSE IF st = "TX2"
        THEN IF w.rx[s].rxbuf # {}
             THEN Receiver_set_state(w, s, "COLLIDED")
             ELSE Receiver_set_state(ChannelState_set_ready(w, s), s, "IDLE")
        ELSE IF st = "SEND_ACK"
        THEN LET payload == w.rx[s].cur_tx_pdu.packet
                 w1 == Send(w, "WirelessInterface.handle_message", s,
                            "_receiver", payload)
                 w2 == [w1 EXCEPT !.up_sent[s] = Append(@, payload),
                                  !.rx[s].num_received = @ + 1,
                                  !.rx[s].cur_tx_pdu = NoPDU]
             IN  Receiver_set_state(ChannelState_set_ready(w2, s), s, "IDLE")
        ELSE w

Receiver_finish_transmit(w, s) ==
    LET st == w.rx[s].state
    IN  IF st = "TX1"
        THEN IF w.rx[s].rxbuf # {}
             THEN Receiver_set_state(ChannelState_set_busy(w, s), s, "COLLIDED")
             ELSE Receiver_set_state(w, s, "IDLE")
        ELSE IF st = "TX2"
        THEN IF w.rx[s].rxbuf # {}
             THEN Receiver_set_state(w, s, "COLLIDED")
             ELSE Receiver_set_state(ChannelState_set_ready(w, s), s, "IDLE")
        ELSE IF st = "SEND_ACK"
        THEN LET payload == w.rx[s].cur_tx_pdu.packet
                 w1 == Send(w, "WirelessInterface.handle_message", s,
                            "_receiver", payload)
                 w2 == [w1 EXCEPT !.up_sent[s] = Append(@, payload),
                                  !.rx[s].num_received = @ + 1,
                                  !.rx[s].cur_tx_pdu = NoPDU]
             IN  Receiver_set_state(ChannelState_set_ready(w2, s), s, "IDLE")
        ELSE w

-----------------------------------------------------------------------------
(* Radio (radio.py) *)

RECURSIVE Radio_schedule_receive(_, _, _, _)
\* The loop of transmit() over the peers `peers[i..]` of radio s.
Radio_schedule_receive(w, s, pdu, i) ==
    IF i > Len(w.cm.peers[s])
    THEN w
    ELSE LET peer == w.cm.peers[s][i]
             w1 == Schedule(w, PropagationDelay(w, s, peer), 0,
                            "Radio.receive", peer, "", pdu)
         IN  Radio_schedule_receive(w1, s, pdu, i + 1)

\* A frame of station s or a frame sent to it is on the air at s.
Radio_on_air(w, s) ==
    \E i \in DOMAIN w.events :
        /\ w.events[i].sta = s
        /\ w.events[i].fn \in {"Radio.handle_frame_transmitted",
                               "Radio.handle_frame_received"}

\* An own transmission overlaps every frame on the air at s (history).
Radio_transmit(w, s, pdu) ==
    IF pdu.type = "NONE"
    THEN Raise(w, "AttributeError: transmit(None)")
    ELSE IF ~(\E j \in DOMAIN w.cm.keys : w.cm.keys[j] = s)
    THEN Raise(w, "KeyError: radio is not registered")
    ELSE LET w1 == Radio_schedule_receive(w, s, pdu, 1)
             w2 == Schedule(w1, AirFrame_duration(pdu), 0,
                            "Radio.handle_frame_transmitted", s, "", NoPDU)
         IN  Receiver_start_transmit([w2 EXCEPT !.rx[s].clean = {}], s)

\* Radio.receive that leaves the preamble out of the duration of the frame.
Radio_receive_NoPreamble(w, s, pdu) ==
    LET w0 == [w EXCEPT !.rx[s].clean =
                            IF Radio_on_air(w, s) THEN {} ELSE {pdu}]
        w1 == Receiver_start_receive(w0, s, pdu)
    IN  IF w1.failed # ""
        THEN w1
        ELSE Schedule(w1, AirFrame_duration(pdu) - PREAMBLE, 0,
                      "Radio.handle_frame_received", s, "", pdu)

\* A frame that starts while another frame or an own transmission is on the
\* air overlaps it and is overlapped by it (history).
Radio_receive(w, s, pdu) ==
    LET w0 == [w EXCEPT !.rx[s].clean =
                            IF Radio_on_air(w, s) THEN {} ELSE {pdu}]
        w1 == Receiver_start_receive(w0, s, pdu)
    IN  IF w1.failed # ""
        THEN w1
        ELSE Schedule(w1, AirFrame_duration(pdu), 0,
                      "Radio.handle_frame_received", s, "", pdu)

Radio_handle_frame_received(w, s, pdu) ==
    LET w1 == Receiver_finish_receive(w, s, pdu)
    IN  [w1 EXCEPT !.rx[s].clean = @ \ {pdu}]

Radio_handle_frame_transmitted(w, s) ==
    Receiver_finish_transmit(Transmitter_finish_transmit(w, s), s)

-----------------------------------------------------------------------------
(* Timer handlers that start a transmission *)

\* Transmitter.handle_backoff_timeout that transmits at the first timeout,
\* without counting the backoff slots down.
Transmitter_handle_backoff_timeout_NoCountdown(w, s) ==
    IF w.tx[s].backoff >= 0
    THEN Radio_transmit([w EXCEPT !.tx[s].state = "TX"], s, w.tx[s].pdu)
    ELSE IF w.tx[s].backoff < 0
    THEN Raise(w, "AssertionError: backoff > 0")
    ELSE [Transmitter_schedule_timeout(w, s, SLOT,
              "Transmitter.handle_backoff_timeout")
          EXCEPT !.tx[s].backoff = @ - 1]

\* Transmitter.handle_backoff_timeout that skips the last slot: it transmits
\* when one slot is left as well.
Transmitter_handle_backoff_timeout_SkipsSlot(w, s) ==
    IF w.tx[s].backoff \in {0, 1}
    THEN Radio_transmit([w EXCEPT !.tx[s].state = "TX"], s, w.tx[s].pdu)
    ELSE IF w.tx[s].backoff < 0
    THEN Raise(w, "AssertionError: backoff > 0")
    ELSE [Transmitter_schedule_timeout(w, s, SLOT,
              "Transmitter.handle_backoff_timeout")
          EXCEPT !.tx[s].backoff = @ - 1]

Transmitter_handle_backoff_timeout(w, s) ==
    IF w.tx[s].backoff = 0
    THEN Radio_transmit([w EXCEPT !.tx[s].state = "TX"], s, w.tx[s].pdu)
    ELSE IF w.tx[s].backoff < 0
    THEN Raise(w, "AssertionError: backoff > 0")
    ELSE [Transmitter_schedule_timeout(w, s, SLOT,
              "Transmitter.handle_backoff_timeout")
          EXCEPT !.tx[s].backoff = @ - 1]

\* Receiver.handle_timeout that addresses the ACK to the station the DATA
\* PDU was addressed to, that is to itself.
Receiver_handle_timeout_Echo(w, s) ==
    IF w.rx[s].state # "WAIT_SEND_ACK"
    THEN Raise(w, "AssertionError: handle_timeout not WAIT_SEND_ACK")
    ELSE LET ack == AckPDU(PHY_HEADER, w.rx[s].num_acks, s,
                           w.rx[s].cur_tx_pdu.receiver)
             w1 == [Receiver_set_state(w, s, "SEND_ACK")
                    EXCEPT !.rx[s].num_acks = @ + 1]
         IN  Radio_transmit(w1, s, ack)

Receiver_handle_timeout(w, s) ==
    IF w.rx[s].state # "WAIT_SEND_ACK"
    THEN Raise(w, "AssertionError: handle_timeout not WAIT_SEND_ACK")
    ELSE LET ack == AckPDU(PHY_HEADER, w.rx[s].num_acks, s,
                           w.rx[s].cur_tx_pdu.sender)
             w1 == [Receiver_set_state(w, s, "SEND_ACK")
                    EXCEPT !.rx[s].num_acks = @ + 1]
         IN  Radio_transmit(w1, s, ack)
-----------------------------------------------------------------------------
(* WiredTransceiver (wired_interface.py) *)

\* numpy.inf, the default bitrate.
Infinite == 0

NoFrame == [packet |-> NoPacket, duration |-> -1, header_size |-> 0,
            preamble |-> 0]

WireFrame(packet, duration, header_size, preamble) ==
    [packet |-> packet, duration |-> duration, header_size |-> header_size,
     preamble |-> preamble]

\* WiredTransceiver.__init__ without the call of sim.schedule.
NewWiredTransceiver(bitrate, header_size, preamble, ifs) ==
    [bitrate |-> bitrate, header_size |-> header_size, preamble |-> preamble,
     ifs |-> ifs, started |-> FALSE, tx_frame |-> NoFrame,
     wait_ifs |-> FALSE, rx_frame |-> NoFrame, num_received_frames |-> 0,
     num_transmitted_packets |-> 0]

WiredService(s) == [fn |-> "WiredTransceiver.handle_message", sta |-> s]

WiredTransceiver_tx_busy(t) == t.tx_frame # NoFrame \/ t.wait_ifs

WiredTransceiver_start(w, s) ==
    [GetNext(w, s, WiredService(s)) EXCEPT !.wired[s].started = TRUE]

\* (header_size + message.size) / bitrate + preamble, in ms.
WiredTransceiver_duration(t, message) ==
    (IF t.bitrate = Infinite
     THEN 0
     ELSE ((t.header_size + message.data.size) * 1000) \div t.bitrate)
    + t.preamble

\* The peer and the module above are mocks of the harness: services 1 and 2.
WiredTransceiver_handle_message(w, s, message, conn) ==
    IF conn = "queue"
    THEN IF WiredTransceiver_tx_busy(w.wired[s])
         THEN Raise(w, "RuntimeError: new NetworkPacket while another TX running")
         ELSE LET t == w.wired[s]
                  duration == WiredTransceiver_duration(t, message)
                  frame == WireFrame(message, duration, t.header_size,
                                     t.preamble)
                  w1 == Send(w, "Mock.handle_message", 1, "peer", frame)
                  w2 == Schedule(w1, duration, 0,
                                 "WiredTransceiver.handle_tx_end", s, "",
                                 NoPacket)
              IN  [w2 EXCEPT !.wired[s].tx_frame = frame]
    ELSE IF conn = "peer"
    THEN [Schedule(w, message.duration, 0, "WiredTransceiver.handle_rx_end",
                   s, "", message)
          EXCEPT !.wired[s].rx_frame = message]
    ELSE w

\* WiredTransceiver.handle_tx_end that asks the queue for the next packet as
\* soon as the frame is sent, before the IFS.
WiredTransceiver_handle_tx_end_Eager(w, s) ==
    LET w1 == Schedule(w, w.wired[s].ifs, 0, "WiredTransceiver.handle_ifs_end",
                       s, "", NoPacket)
    IN  GetNext([w1 EXCEPT !.wired[s].num_transmitted_packets = @ + 1,
                           !.wired[s].wait_ifs = TRUE,
                           !.wired[s].tx_frame = NoFrame],
                s, WiredService(s))

WiredTransceiver_handle_tx_end(w, s) ==
    LET w1 == Schedule(w, w.wired[s].ifs, 0, "WiredTransceiver.handle_ifs_end",
                       s, "", NoPacket)
    IN  [w1 EXCEPT !.wired[s].num_transmitted_packets = @ + 1,
                   !.wired[s].wait_ifs = TRUE,
                   !.wired[s].tx_frame = NoFrame]

WiredTransceiver_handle_ifs_end(w, s) ==
    GetNext([w EXCEPT !.wired[s].wait_ifs = FALSE], s, WiredService(s))

WiredTransceiver_handle_rx_end(w, s, frame) ==
    LET w1 == Send(w, "Mock.handle_message", 2, "up", frame.packet)
    IN  [w1 EXCEPT !.wired[s].rx_frame = NoFrame,
                   !.wired[s].num_received_frames = @ + 1]

-----------------------------------------------------------------------------
(* Analytic model (analytic/bianchi.py).  Probabilities are fractions       *)
(* <<numerator, denominator>>; the collision probability p the solver       *)
(* returns is p_num / ProbabilityDenominator.                               *)

ProbabilityDenominator == 4

Zero == <<0, 1>>
One == <<1, 1>>

\* num_stages = log2(cwmax / cwmin), for cwmax = cwmin * 2^num_stages.
RECURSIVE Log2Ratio(_, _)
Log2Ratio(cwmax, cwmin) ==
    IF cwmax <= cwmin THEN 0 ELSE 1 + Log2Ratio(cwmax \div 2, cwmin)

\* get_bianchi_model_parameters: p_num stands for the root fsolve finds.
get_bianchi_model_parameters(cwmin, cwmax, p_num) ==
    [m |-> Log2Ratio(cwmax, cwmin), W |-> cwmin, p |-> p_num]

\* The index function of a chain whose stages all have cwmin states.
get_bianchi_chain_state_index_Linear(stage, backoff, cwmin) ==
    cwmin * stage + backoff

get_bianchi_chain_state_index(stage, backoff, cwmin) ==
    cwmin * (2 ^ stage - 1) + backoff

\* for b in range(first, cw): mat[get_index(i, b), get_index(i, b - 1)] = 1
\* The assignments of the loop write different entries, so the matrix after
\* the loop is the old one but for those entries.
TimeMatrixBackoffRows(mat, params, i, first, cw) ==
    [r \in DOMAIN mat |-> [c \in DOMAIN mat[r] |->
        IF \E b \in first..(cw - 1) :
               /\ r = get_bianchi_chain_state_index(i, b, params.W)
               /\ c = get_bianchi_chain_state_index(i, b - 1, params.W)
        THEN One
        ELSE mat[r][c]]]

\* for b in range(first, cw): mat[get_index(i, 0), get_index(next_i, b)] = _p
TimeMatrixAttemptRow(mat, params, i, next_i, first, cw) ==
    [r \in DOMAIN mat |-> [c \in DOMAIN mat[r] |->
        IF \E b \in first..(cw - 1) :
               /\ r = get_bianchi_chain_state_index(i, 0, params.W)
               /\ c = get_bianchi_chain_state_index(next_i, b, params.W)
        THEN <<params.p, ProbabilityDenominator * cw>>
        ELSE mat[r][c]]]

\* The iterations i, ..., m of the outer loop of get_bianchi_time_matrix.
RECURSIVE TimeMatrixStages(_, _, _, _)
TimeMatrixStages(mat, params, i, cw) ==
    IF i > params.m
    THEN mat
    ELSE LET mat1 == TimeMatrixBackoffRows(mat, params, i, 1, cw)
             cw1 == IF i < params.m THEN cw * 2 ELSE cw
             next_i == IF i < params.m THEN i + 1 ELSE i
             mat2 == TimeMatrixAttemptRow(mat1, params, i, next_i, 0, cw1)
         IN  TimeMatrixStages(mat2, params, i + 1, cw1)

get_bianchi_time_matrix(params) ==
    LET order == params.W * (2 ^ (params.m + 1) - 1)
        zeros == [r \in 0..(order - 1) |-> [c \in 0..(order - 1) |-> Zero]]
    IN  TimeMatrixStages(zeros, params, 0, params.W)

\* Holding-time distributions, by the names of the slot times and of the
\* slot probabilities they mix.
Constant0 == [kind |-> "Constant", times |-> <<"0">>, probs |-> <<>>]

WaitSlot ==
    [kind |-> "VarChoice", times |-> <<"empty", "data", "collided">>,
     probs |-> <<"wait_slot_empty", "wait_slot_success",
                 "wait_slot_collided">>]

TransSlot ==
    [kind |-> "VarChoice", times |-> <<"collided", "data">>,
     probs |-> <<"trans_slot_collided", "trans_slot_success">>]

\* for b in range(first, cw):
\*     time_dists[get_index(i, b, cwmin)] = VarChoice(...)
TimeDistsBackoff(time_dists, cwmin, i, first, cw) ==
    [k \in DOMAIN time_dists |->
        IF \E b \in first..(cw - 1) :
               k = get_bianchi_chain_state_index(i, b, cwmin)
        THEN WaitSlot
        ELSE time_dists[k]]

\* The iterations i, ..., m - 1 of the loop `for i in range(bianchi.m)`.
RECURSIVE TimeDistsStages(_, _, _, _)
TimeDistsStages(time_dists, params, cwmin, i) ==
    IF i >= params.m
    THEN time_dists
    ELSE LET cw == cwmin * (2 ^ i)
             d1 == TimeDistsBackoff(time_dists, cwmin, i, 1, cw)
             d2 == [d1 EXCEPT
                        ![get_bianchi_chain_state_index(i, 0, cwmin)]
                            = TransSlot]
         IN  TimeDistsStages(d2, params, cwmin, i + 1)

\* bianchi_time up to the construction of the SemiMarkovAbsorb process: the
\* matrix, the holding-time distributions and the initial probabilities.
bianchi_time(cwmin, cwmax, p_num) ==
    LET params == get_bianchi_model_parameters(cwmin, cwmax, p_num)
        order == params.W * (2 ^ (params.m + 1) - 1)
        mat == get_bianchi_time_matrix(params)
        time_dists == TimeDistsStages([k \in 0..(order - 1) |-> Constant0],
                                      params, cwmin, 0)
        p0 == [k \in 0..(order - 1) |->
                  IF k < cwmin THEN <<1, cwmin>> ELSE Zero]
    IN  [mat |-> mat, time_dists |-> time_dists, p0 |-> p0]

\* No call of the analytic model was made.
NoBianchi == [cwmin |-> 0, cwmax |-> 0, p |-> 0, mat |-> <<>>,
              process |-> <<>>]

-----------------------------------------------------------------------------
(* Construction of a network (wireless_networks.py, station.py) *)

NewTransmitter ==
    [state |-> "IDLE", timeout |-> NoTimeout, cw |-> 65536, backoff |-> -1,
     num_retries |-> 0, pdu |-> NoPDU, seqn |-> 0, num_sent |-> 0,
     n_backoff |-> 0, n_service_time |-> 0, n_retries |-> 0,
     service_age |-> NoServiceTime, service_time |-> <<>>,
     backoff_vector |-> <<>>]

NewReceiver ==
    [state |-> "IDLE", rxbuf |-> {}, cur_tx_pdu |-> NoPDU,
     num_collisions |-> 0, num_received |-> 0, num_acks |-> 0,
     clean |-> {}]

\* create_source(index) of the three networks; s = index + 1.
NetworkSource(kind, n, active, s) ==
    [kind |-> IF kind = "line"
              THEN IF s \in active THEN "random" ELSE "none"
              ELSE IF s > 1 /\ kind = "saturated"
              THEN "controlled"
              ELSE IF s > 1 /\ kind = "domain"
              THEN "random"
              ELSE "none",
     source_id |-> s - 1,
     dest_addr |-> IF kind = "line" THEN n ELSE 1,
     num_packets_sent |-> 0]

\* get_position(index): the distances between the stations.
LineDistances(n) == [a \in 1..n |-> [b \in 1..n |-> Abs(a - b) * DISTANCE]]

IsMetric(n, d) ==
    /\ \A a, b \in 1..n : d[a][b] = d[b][a]
    /\ \A a \in 1..n : d[a][a] = 0
    /\ \A a, b, c \in 1..n : d[a][c] <= d[a][b] + d[b][c]

Layouts(kind, n) ==
    IF kind = "line"
    THEN {LineDistances(n)}
    ELSE {d \in [1..n -> [1..n -> DomainDistances \cup {0}]] :
              /\ IsMetric(n, d)
              /\ \A a, b \in 1..n : a # b => d[a][b] # 0}

ActiveSources(kind, n) ==
    IF kind = "line" THEN {{1}, 1..(n - 1)} ELSE {2..n}

EmptyWorld(kind, n, dist, active) ==
    [net |-> [kind |-> kind, n |-> n, dist |-> dist, active |-> active,
              built |-> 1..n, payload_size |-> PAYLOAD_SIZE,
              intervals |-> SourceIntervals],
     tx |-> [s \in 1..n |-> NewTransmitter],
     rx |-> [s \in 1..n |-> NewReceiver],
     channel |-> [s \in 1..n |-> [is_busy |-> FALSE, ready_for |-> 0]],
     queue |-> [s \in 1..n |->
                   NewQueue(NoCapacity, kind = "saturated" /\ s > 1,
                            {TxService(s)})],
     switch |-> [s \in 1..n |-> [osn_table |-> [a \in 1..n |-> NoOSN]]],
     source |-> [s \in 1..n |-> NetworkSource(kind, n, active, s)],
     sink |-> [s \in 1..n |-> [received |-> <<>>]],
     wired |-> [s \in 1..n |-> NewWiredTransceiver(Infinite, 0, 0, 0)],
     bianchi |-> NoBianchi,
     cm |-> [keys |-> <<>>, peers |-> [s \in 1..n |-> <<>>]],
     events |-> <<>>,
     up_sent |-> [s \in 1..n |-> <<>>],
     mock |-> <<>>,
     env |-> [ops |-> 0, frames |-> 0, accepted |-> <<>>, left |-> <<>>,
              now |-> 0, statistics |-> FALSE, retries |-> MaxRetries],
     last |-> [fn |-> "", sta |-> 0, conn |-> "", msg |-> NoPDU,
               tx_state |-> "", rx_state |-> ""],
     failed |-> ""]

\* One pass of the loop of _HalfDuplexNetworkBase.__init__: the constructors
\* of RandomSource, Transmitter and Radio schedule their first events;
\* interval is the first interval the source of s draws.
BuildStation(w, s, interval) ==
    LET w1 == IF w.source[s].kind = "random"
              THEN Schedule(w, interval, 0, "RandomSource._generate", s,
                            "", NoData)
              ELSE w
        w2 == Schedule(w1, 0, 0, "Transmitter.start", s, "", NoPDU)
    IN  Schedule(w2, 0, 0, "Radio._register_at_connection_manager", s, "",
                 NoPDU)

RECURSIVE BuildStations(_, _, _)
\* The loop of _HalfDuplexNetworkBase.__init__ from station s on.
BuildStations(w, s, ivs) ==
    IF s > w.net.n
    THEN w
    ELSE BuildStations(BuildStation(w, s, ivs[s]), s + 1, ivs)

Holds(w) ==
    /\ net = w.net
    /\ tx = w.tx
    /\ rx = w.rx
    /\ channel = w.channel
    /\ queue = w.queue
    /\ switch = w.switch
    /\ source = w.source
    /\ sink = w.sink
    /\ wired = w.wired
    /\ bianchi = w.bianchi
    /\ cm = w.cm
    /\ events = w.events
    /\ up_sent = w.up_sent
    /\ mock = w.mock
    /\ env = w.env
    /\ last = w.last
    /\ failed = w.failed

Init ==
    \E kind \in NetworkKinds, n \in 2..MaxStations :
        \E dist \in Layouts(kind, n), active \in ActiveSources(kind, n) :
            \E ivs \in [1..n -> SourceIntervals] :
                Holds(BuildStations(
                    [EmptyWorld(kind, n, dist, active)
                     EXCEPT !.env.statistics = TRUE], 1, ivs))

-----------------------------------------------------------------------------
(* The scheduler loop: one action per event handler *)

Fires(fn) == failed = "" /\ events # <<>> /\ Head(events).fn = fn

\* The world after the handler of the first event returned.
Ran(w) ==
    LET e == Head(events)
    IN  Commit([w EXCEPT !.last = [fn |-> e.fn, sta |-> e.sta,
                                   conn |-> e.conn, msg |-> e.msg,
                                   tx_state |-> tx[e.sta].state,
                                   rx_state |-> rx[e.sta].state]])

TransmitterStart ==
    /\ Fires("Transmitter.start")
    /\ Ran(Transmitter_start(Pop(World), Head(events).sta))

RadioRegister ==
    /\ Fires("Radio._register_at_connection_manager")
    /\ Ran(Radio_register_at_connection_manager(Pop(World), Head(events).sta))

RandomSourceGenerate ==
    /\ Fires("RandomSource._generate")
    /\ \E interval \in net.intervals :
           Ran(RandomSource_generate(Pop(World), Head(events).sta, interval))

NetworkServiceHandleMessage ==
    /\ Fires("NetworkService.handle_message")
    /\ LET e == Head(events)
       IN  Ran(NetworkService_handle_message(Pop(World), e.sta, e.msg, e.conn))

NetworkSwitchHandleMessage ==
    /\ Fires("NetworkSwitch.handle_message")
    /\ LET e == Head(events)
       IN  Ran(NetworkSwitch_handle_message(Pop(World), e.sta, e.msg, e.conn))

WirelessInterfaceHandleMessage ==
    /\ Fires("WirelessInterface.handle_message")
    /\ LET e == Head(events)
       IN  Ran(WirelessInterface_handle_message(Pop(World), e.sta, e.msg,
                                                e.conn))

QueueHandleMessage ==
    /\ Fires("Queue.handle_message")
    /\ LET e == Head(events)
       IN  Ran(Queue_handle_message(Pop(World), e.sta, e.msg))

SinkHandleMessage ==
    /\ Fires("Sink.handle_message")
    /\ LET e == Head(events)
       IN  Ran(Sink_handle_message(Pop(World), e.sta, e.msg))

TransmitterHandleMessage ==
    /\ Fires("Transmitter.handle_message")
    /\ LET e == Head(events)
       IN  \E backoff \in 0..(CWMIN - 1) :
               Ran(Transmitter_handle_message(Pop(World), e.sta, e.msg,
                                              e.conn, backoff))

TransmitterHandleBackoffTimeout ==
    /\ Fires("Transmitter.handle_backoff_timeout")
    /\ Ran(Transmitter_handle_backoff_timeout(Pop(World), Head(events).sta))

TransmitterHandleAckTimeout ==
    /\ Fires("Transmitter.handle_ack_timeout")
    /\ LET e == Head(events)
       IN  /\ tx[e.sta].num_retries < env.retries
           /\ \E backoff \in 0..(Min(2 * tx[e.sta].cw, CWMAX) - 1) :
                  Ran(Transmitter_handle_ack_timeout(Pop(World), e.sta,
                                                     backoff))

ReceiverHandleTimeout ==
    /\ Fires("Receiver.handle_timeout")
    /\ Ran(Receiver_handle_timeout(Pop(World), Head(events).sta))

RadioReceive ==
    /\ Fires("Radio.receive")
    /\ LET e == Head(events)
       IN  Ran(Radio_receive(Pop(World), e.sta, e.msg))

RadioHandleFrameReceived ==
    /\ Fires("Radio.handle_frame_received")
    /\ LET e == Head(events)
       IN  Ran(Radio_handle_frame_received(Pop(World), e.sta, e.msg))

RadioHandleFrameTransmitted ==
    /\ Fires("Radio.handle_frame_transmitted")
    /\ Ran(Radio_handle_frame_transmitted(Pop(World), Head(events).sta))

Next ==
    \/ TransmitterStart
    \/ RadioRegister
    \/ RandomSourceGenerate
    \/ NetworkServiceHandleMessage
    \/ NetworkSwitchHandleMessage
    \/ WirelessInterfaceHandleMessage
    \/ QueueHandleMessage
    \/ SinkHandleMessage
    \/ TransmitterHandleMessage
    \/ TransmitterHandleBackoffTimeout
    \/ TransmitterHandleAckTimeout
    \/ ReceiverHandleTimeout
    \/ RadioReceive
    \/ RadioHandleFrameReceived
    \/ RadioHandleFrameTransmitted

Spec == Init /\ [][Next]_vars

-----------------------------------------------------------------------------
(* A line network with hidden stations and cross traffic: one station more *)
(* than MaxStations, a source at every station but the last, the payload   *)
(* of the saturated-network tests and sources that draw long intervals.    *)

PAYLOAD == 1000

LineIntervals == {700, 2450}

\* The first interval the source of station s draws.
FirstInterval(s) == IF s = 1 THEN 700 ELSE 1

InitLine ==
    LET n == MaxStations + 1
        w == EmptyWorld("line", n, LineDistances(n), 1..(n - 1))
    IN  Holds(BuildStations([w EXCEPT !.net.payload_size = PAYLOAD,
                                      !.net.intervals = LineIntervals],
                            1, [s \in 1..n |-> FirstInterval(s)]))

SpecLine == InitLine /\ [][Next]_vars

-----------------------------------------------------------------------------
(* A collision domain of two stations with a single sender: station 2      *)
(* sends to station 1. The kernel runs the scheduled events until none is  *)
(* left, so the loop is weakly fair. No ACK timeout ever fires there, so   *)
(* the loop has no step for one: a timeout at the head of the event list   *)
(* would stop the run with the PDU still in service.                       *)

InitPair ==
    /\ Init
    /\ net.n = 2
    /\ net.kind \in {"domain", "saturated"}

NextPair ==
    \/ TransmitterStart
    \/ RadioRegister
    \/ RandomSourceGenerate
    \/ NetworkServiceHandleMessage
    \/ NetworkSwitchHandleMessage
    \/ WirelessInterfaceHandleMessage
    \/ QueueHandleMessage
    \/ SinkHandleMessage
    \/ TransmitterHandleMessage
    \/ TransmitterHandleBackoffTimeout
    \/ ReceiverHandleTimeout
    \/ RadioReceive
    \/ RadioHandleFrameReceived
    \/ RadioHandleFrameTransmitted

SpecPair == InitPair /\ [][NextPair]_vars /\ WF_vars(NextPair)

-----------------------------------------------------------------------------
(* Unit harness of one station of a line network: only the modules of that *)
(* station are built, and its neighbours are radios driven by the harness, *)
(* which start frames addressed to the station or overheard by it.         *)

MaxFrames == 4

\* The packets station 1 originates, as the neighbour p relays them to s.
RelayedPackets(w, p, s) ==
    {[dst |-> w.net.n, orig |-> 1, snd |-> p, rcv |-> s, osn |-> k,
      data |-> [sid |-> 0, n |-> k + 1, dst |-> w.net.n,
                size |-> w.net.payload_size]] : k \in 0..(MaxPackets - 1)}

\* The frames neighbour p of station s can send: the upstream neighbour
\* sends DATA to s and ACKs to its own upstream neighbour, the downstream
\* neighbour sends ACKs to s and DATA further downstream.
PeerFrames(w, p, s) ==
    IF p < s
    THEN {DataPDU(pkt, PHY_HEADER + MAC_HEADER, pkt.osn, p, s) :
              pkt \in RelayedPackets(w, p, s)}
         \cup (IF p > 1 THEN {AckPDU(PHY_HEADER, 0, p, p - 1)} ELSE {})
    ELSE {AckPDU(PHY_HEADER, 0, p, s)}
         \cup (IF p < w.net.n
               THEN {DataPDU(pkt, PHY_HEADER + MAC_HEADER, pkt.osn, p, p + 1) :
                         pkt \in RelayedPackets(w, p, p + 1)}
               ELSE {})

\* A frame of radio p is still on the air at some station.
Airborne(w, p) ==
    \E i \in DOMAIN w.events :
        /\ w.events[i].fn \in {"Radio.receive", "Radio.handle_frame_received"}
        /\ w.events[i].msg.sender = p

\* The loop body of Radio.transmit of the neighbour p for its peer s.
Peer_transmit(w, p, s, pdu) ==
    Schedule([w EXCEPT !.env.frames = @ + 1], PropagationDelay(w, p, s), 0,
             "Radio.receive", s, "", pdu)

\* A call the harness makes itself, outside the scheduler loop.
Called(w, fn, sta, msg) ==
    Commit([w EXCEPT !.last = [fn |-> fn, sta |-> sta, conn |-> "",
                               msg |-> msg, tx_state |-> "",
                               rx_state |-> ""]])

PeerTransmit ==
    /\ failed = ""
    /\ env.frames < MaxFrames
    /\ \E s \in net.built, p \in Stations \ net.built :
           /\ net.dist[p][s] <= CONNECTION_RADIUS
           /\ ~Airborne(World, p)
           /\ \E pdu \in PeerFrames(World, p, s) :
                  Called(Peer_transmit(World, p, s, pdu), "Radio.transmit",
                         p, pdu)

InitStation ==
    \E s \in 2..(MaxStations - 1), interval \in SourceIntervals :
        LET w == EmptyWorld("line", MaxStations, LineDistances(MaxStations),
                            {s})
        IN  Holds(BuildStation([w EXCEPT !.net.built = {s}], s, interval))

NextStation ==
    \/ PeerTransmit
    \/ TransmitterStart
    \/ RadioRegister
    \/ RandomSourceGenerate
    \/ NetworkServiceHandleMessage
    \/ NetworkSwitchHandleMessage
    \/ WirelessInterfaceHandleMessage
    \/ QueueHandleMessage
    \/ TransmitterHandleMessage
    \/ TransmitterHandleBackoffTimeout
    \/ TransmitterHandleAckTimeout
    \/ ReceiverHandleTimeout
    \/ RadioReceive
    \/ RadioHandleFrameReceived
    \/ RadioHandleFrameTransmitted

SpecStation == InitStation /\ [][NextStation]_vars

-----------------------------------------------------------------------------
(* The same harness with neighbours that send one frame at most, so that   *)
(* the packets of the station stay unacknowledged and its Transmitter      *)
(* walks through the whole contention-window ladder CWMIN, ..., CWMAX.     *)

MaxTimeouts == 3
MaxBackoffFrames == 1

InitBackoff ==
    LET s == 2
        w == EmptyWorld("line", MaxStations, LineDistances(MaxStations), {s})
    IN  Holds(BuildStation([w EXCEPT !.net.built = {s},
                                     !.env.retries = MaxTimeouts + 1,
                                     !.env.frames = MaxFrames - MaxBackoffFrames],
                           s, 1))

SpecBackoff == InitBackoff /\ [][NextStation]_vars

-----------------------------------------------------------------------------
(* Unit harness of the Queue (tests/unit_tests/test_queues.py): a queue    *)
(* connected to mock services; the test calls push, pop and get_next and   *)
(* the scheduler runs the handle_message events of the services.           *)

MockServices == 1..2

MockService(k) == [fn |-> "Mock.handle_message", sta |-> k]

QueueCapacities == {NoCapacity, 0, 1, 2}

QueuePackets ==
    {[NoPacket EXCEPT !.data = [sid |-> 0, n |-> k, dst |-> NoAddress,
                                size |-> PAYLOAD_SIZE]] :
         k \in 1..MaxPackets}

\* service.handle_message(packet) of a mock service.
Mock_handle_message(w, k, packet) == [w EXCEPT !.mock[k] = Append(@, packet)]

Counted(w) == [w EXCEPT !.env.ops = @ + 1]

InitQueue ==
    \E capacity \in QueueCapacities :
        LET n == Cardinality(MockServices)
            w == EmptyWorld("queue", n, LineDistances(n), {})
        IN  Holds([w EXCEPT
                       !.net.built = {},
                       !.queue[1] = NewQueue(capacity, FALSE,
                                        {MockService(k) : k \in MockServices}),
                       !.mock = [k \in MockServices |-> <<>>]])

\* The harness notes the packets the queue accepted (pushes it did not drop)
\* and the packets that left it (returned by pop or sent to a service), by
\* comparing the queue before the call (World) and after it (w).
Observed(w, pushed, head) ==
    LET accepted == IF w.queue[1].num_dropped = queue[1].num_dropped
                       /\ w.queue[1].num_arrived > queue[1].num_arrived
                    THEN <<pushed>> ELSE <<>>
        sent == IF Len(w.events) > Len(events)
                THEN <<w.events[Len(w.events)].msg>> ELSE <<>>
    IN  [w EXCEPT !.env.accepted = @ \o accepted,
                  !.env.left = @ \o sent \o head]

QueuePush ==
    /\ failed = ""
    /\ env.ops < MaxQueueOps
    /\ \E packet \in QueuePackets :
           Called(Observed(Queue_push(Counted(World), 1, packet), packet,
                           <<>>),
                  "Queue.push", 1, packet)

QueuePop ==
    /\ failed = ""
    /\ env.ops < MaxQueueOps
    /\ Called(Observed(Queue_pop(Counted(World), 1), NoPacket,
                        IF Queue_empty(queue[1]) THEN <<>>
                        ELSE <<Head(queue[1].packets)>>),
               "Queue.pop", 1, NoPacket)

QueueGetNext ==
    /\ failed = ""
    /\ env.ops < MaxQueueOps
    /\ \E k \in MockServices :
           Called(Observed(Queue_get_next(Counted(World), 1, MockService(k)),
                           NoPacket, <<>>),
                  "Queue.get_next", k, NoPacket)

MockHandleMessage ==
    /\ Fires("Mock.handle_message")
    /\ LET e == Head(events)
       IN  Ran(Mock_handle_message(Pop(World), e.sta, e.msg))

NextQueue ==
    \/ QueuePush
    \/ QueuePop
    \/ QueueGetNext
    \/ MockHandleMessage

SpecQueue == InitQueue /\ [][NextQueue]_vars

-----------------------------------------------------------------------------
(* Unit harness of the event scheduler: the harness and the callbacks it   *)
(* schedules call schedule(delay, callback); every callback carries the    *)
(* number of its schedule call and the simulation time it is due at.       *)

MaxScheduled == 5

SchedulerDelays == 0..2

\* sim.schedule(delay, callback) called at simulation time w.env.now.
Harness_schedule(w, delay) ==
    Schedule([w EXCEPT !.env.ops = @ + 1], delay, 0, "Harness.callback", 1,
             "", [serial |-> w.env.ops + 1, due |-> w.env.now + delay])

\* The callback `e` runs: the clock reads the fire time of the event, and
\* the callback schedules a follow-up after `delay` when delay >= 0.
Harness_callback(w, e, delay) ==
    LET w1 == [w EXCEPT !.env.now = @ + e.t,
                        !.env.left = Append(@, e.msg)]
    IN  IF delay >= 0 /\ w1.env.ops < MaxScheduled
        THEN Harness_schedule(w1, delay)
        ELSE w1

InitScheduler ==
    LET w == EmptyWorld("scheduler", 1, LineDistances(1), {})
    IN  Holds([w EXCEPT !.net.built = {}])

HarnessSchedule ==
    /\ failed = ""
    /\ env.ops < MaxScheduled
    /\ \E delay \in SchedulerDelays :
           Called(Harness_schedule(World, delay), "Simulator.schedule", 1,
                  NoPacket)

HarnessCallback ==
    /\ Fires("Harness.callback")
    /\ \E delay \in SchedulerDelays \cup {-1} :
           Ran(Harness_callback(Pop(World), Head(events), delay))

NextScheduler ==
    \/ HarnessSchedule
    \/ HarnessCallback

SpecScheduler == InitScheduler /\ [][NextScheduler]_vars

-----------------------------------------------------------------------------
(* Unit harness of a WiredTransceiver: the transceiver is connected to a   *)
(* Queue, to a mock peer (service 1) and to a mock module above it         *)
(* (service 2); the harness pushes packets into the queue and lets the     *)
(* peer send frames, and the scheduler runs the handlers.                  *)

MaxWiredPushes == 3
MaxWiredFrames == 1

WiredBitrates == {Infinite, BITRATE}
WiredPreambles == {0, PREAMBLE}
WiredIfs == {0, SLOT}

InitWired ==
    \E bitrate \in WiredBitrates, preamble \in WiredPreambles,
       ifs \in WiredIfs :
        LET n == Cardinality(MockServices)
            w == EmptyWorld("wired", n, LineDistances(n), {})
            w1 == [w EXCEPT
                       !.net.built = {},
                       !.queue[1] = NewQueue(NoCapacity, FALSE,
                                             {WiredService(1)}),
                       !.wired[1] = NewWiredTransceiver(bitrate, PHY_HEADER,
                                                        preamble, ifs),
                       !.mock = [k \in MockServices |-> <<>>]]
        IN  Holds(Schedule(w1, 0, 0, "WiredTransceiver.start", 1, "", NoPacket))

\* A producer pushes a packet into the queue of the transceiver.
WiredPush ==
    /\ failed = ""
    /\ env.ops < MaxWiredPushes
    /\ \E packet \in QueuePackets :
           Called(Queue_push(Counted(World), 1, packet), "Queue.push", 1,
                  packet)

\* The peer sends a frame to the transceiver.
WiredPeerSend ==
    /\ failed = ""
    /\ env.frames < MaxWiredFrames
    /\ \E packet \in QueuePackets :
           LET frame == WireFrame(packet,
                            WiredTransceiver_duration(wired[1], packet),
                            wired[1].header_size, wired[1].preamble)
           IN  Called(Send([World EXCEPT !.env.frames = @ + 1],
                           "WiredTransceiver.handle_message", 1, "peer", frame),
                      "Peer.send", 1, packet)

WiredTransceiverStart ==
    /\ Fires("WiredTransceiver.start")
    /\ Ran(WiredTransceiver_start(Pop(World), Head(events).sta))

WiredTransceiverHandleMessage ==
    /\ Fires("WiredTransceiver.handle_message")
    /\ LET e == Head(events)
       IN  Ran(WiredTransceiver_handle_message(Pop(World), e.sta, e.msg,
                                               e.conn))

WiredTransceiverHandleTxEnd ==
    /\ Fires("WiredTransceiver.handle_tx_end")
    /\ Ran(WiredTransceiver_handle_tx_end(Pop(World), Head(events).sta))

WiredTransceiverHandleIfsEnd ==
    /\ Fires("WiredTransceiver.handle_ifs_end")
    /\ Ran(WiredTransceiver_handle_ifs_end(Pop(World), Head(events).sta))

WiredTransceiverHandleRxEnd ==
    /\ Fires("WiredTransceiver.handle_rx_end")
    /\ LET e == Head(events)
       IN  Ran(WiredTransceiver_handle_rx_end(Pop(World), e.sta, e.msg))

NextWired ==
    \/ WiredPush
    \/ WiredPeerSend
    \/ WiredTransceiverStart
    \/ WiredTransceiverHandleMessage
    \/ WiredTransceiverHandleTxEnd
    \/ WiredTransceiverHandleIfsEnd
    \/ WiredTransceiverHandleRxEnd
    \/ MockHandleMessage

SpecWired == InitWired /\ [][NextWired]_vars

-----------------------------------------------------------------------------
(* Calls of the analytic model: the harness picks the contention windows    *)
(* and the collision probability, then calls get_bianchi_time_matrix and    *)
(* bianchi_time.                                                            *)

MaxWindow == 4
MaxStages == 2

InitBianchi ==
    \E cwmin \in 1..MaxWindow, m \in 0..MaxStages,
       p_num \in 0..ProbabilityDenominator :
        LET w == EmptyWorld("bianchi", 1, LineDistances(1), {})
        IN  Holds([w EXCEPT !.net.built = {},
                            !.bianchi.cwmin = cwmin,
                            !.bianchi.cwmax = cwmin * (2 ^ m),
                            !.bianchi.p = p_num])

GetBianchiTimeMatrix ==
    /\ net.kind = "bianchi"
    /\ bianchi.mat = <<>>
    /\ LET params == get_bianchi_model_parameters(bianchi.cwmin,
                                                  bianchi.cwmax, bianchi.p)
       IN  Called([World EXCEPT
                       !.bianchi.mat = get_bianchi_time_matrix(params)],
                  "get_bianchi_time_matrix", 1, NoPacket)

BianchiTime ==
    /\ net.kind = "bianchi"
    /\ bianchi.process = <<>>
    /\ Called([World EXCEPT
                   !.bianchi.process =
                       bianchi_time(bianchi.cwmin, bianchi.cwmax, bianchi.p)],
              "bianchi_time", 1, NoPacket)

NextBianchi == GetBianchiTimeMatrix \/ BianchiTime

SpecBianchi == InitBianchi /\ [][NextBianchi]_vars

-----------------------------------------------------------------------------
(* Properties.  Stations are numbered from 1: station 1 of the model is    *)
(* the station with index 0 (address 1) of the code.                       *)

\* C1: in a collision-domain network (saturated or not) of exactly two
\* stations, where only the second station sends and the first one is the
\* destination, no Receiver ever enters COLLIDED: both collision counters
\* stay 0 in every reachable state.
C1_NoCollisionBetweenTwoStations ==
    (net.n = 2 /\ net.kind \in {"domain", "saturated"}) =>
        \A s \in Stations :
            rx[s].num_collisions = 0 /\ rx[s].state # "COLLIDED"

\* Both packets of the sender were received and acknowledged.
C1_Witness ==
    /\ net.n = 2
    /\ net.kind \in {"domain", "saturated"}
    /\ rx[1].num_received = MaxPackets
    /\ tx[2].num_sent = MaxPackets

\* C2: a Receiver sends every DATA payload it received upward exactly
\* once, also when the ACK was lost and the sender retransmitted the PDU:
\* no payload appears twice among the payloads a Receiver sent upward.
C2_DeliveredUpwardOnce ==
    \A s \in Stations :
        \A i, j \in DOMAIN up_sent[s] :
            i # j => up_sent[s][i] # up_sent[s][j]

\* The next hop of the packets station s sends (NoAddress if it sends none).
Remote(s) == SwitchTable_get(World, s, source[s].dest_addr).next_hop

\* Packets handed to the Transmitter of s and not acknowledged yet.
InFlight(s) == IF tx[s].pdu # NoPDU THEN 1 ELSE 0

\* C3: for a Transmitter and the remote Receiver of its packets (a Receiver
\* no other station sends to), num_sent of the sender equals num_received
\* of the remote plus the packets still in flight, and num_received of the
\* remote never exceeds num_sent of the sender.
C3_SentEqualsReceivedPlusInFlight ==
    \A s \in Stations :
        (/\ Remote(s) # NoAddress
         /\ \A o \in Stations : Remote(o) = Remote(s) => o = s) =>
            /\ tx[s].num_sent = rx[Remote(s)].num_received + InFlight(s)
            /\ rx[Remote(s)].num_received <= tx[s].num_sent

\* C4: whenever the Receiver of a station is in RX or COLLIDED, the
\* ChannelState of the station reads busy.
C4_BusyWhileReceiving ==
    \A s \in Stations :
        rx[s].state \in {"RX", "COLLIDED"} => channel[s].is_busy

\* C5 as stated: outside TX1, TX2 and SEND_ACK, rxbuf is non-empty if and
\* only if the Receiver is in RX or COLLIDED.
C5_BufferIffReceiving ==
    \A s \in Stations :
        rx[s].state \notin {"TX1", "TX2", "SEND_ACK"} =>
            (rx[s].rxbuf # {} <=> rx[s].state \in {"RX", "COLLIDED"})

\* C5, amended: rxbuf holds exactly one PDU while the Receiver is in RX and
\* at least one while it is in COLLIDED; in every other state (also in
\* WAIT_SEND_ACK and in IDLE) rxbuf may hold frames that started earlier.
C5_ReceivingImpliesBuffer ==
    \A s \in Stations :
        /\ rx[s].state = "RX" => Cardinality(rx[s].rxbuf) = 1
        /\ rx[s].state = "COLLIDED" => rx[s].rxbuf # {}

\* A frame started at an IDLE Receiver whose buffer still held a frame
\* that had started during its ACK transmission: the Receiver is COLLIDED.
C5_Witness ==
    /\ last.fn = "Radio.receive"
    /\ last.rx_state = "IDLE"
    /\ rx[last.sta].state = "COLLIDED"
    /\ Cardinality(rx[last.sta].rxbuf) = 2

\* C6 as stated: Transmitter.pdu is non-null if and only if the state is
\* BACKOFF, TX or WAIT_ACK.
C6_PduIffBackoffTxWaitAck ==
    \A s \in Stations :
        tx[s].pdu # NoPDU <=> tx[s].state \in {"BACKOFF", "TX", "WAIT_ACK"}

\* C6, amended: the Transmitter holds a PDU if and only if it is not IDLE,
\* that is in BUSY, BACKOFF, TX or WAIT_ACK.
C6_PduIffNotIdle ==
    \A s \in Stations :
        /\ tx[s].state \in {"IDLE", "BUSY", "BACKOFF", "TX", "WAIT_ACK"}
        /\ tx[s].pdu # NoPDU <=> tx[s].state # "IDLE"

\* A Transmitter waits in BUSY for the channel, holding a retransmission.
C6_Witness ==
    \E s \in Stations :
        /\ tx[s].state = "BUSY"
        /\ tx[s].pdu # NoPDU
        /\ tx[s].num_retries > 1

\* handle_message events of the Transmitter of s that are scheduled.
PendingPackets(s) ==
    Cardinality({i \in DOMAIN events :
                     /\ events[i].fn = "Transmitter.handle_message"
                     /\ events[i].sta = s})

\* C7: a Transmitter has at most one get_next request outstanding (stored
\* by the queue or already answered by a scheduled packet), a packet is on
\* its way only to an IDLE Transmitter, and the assertion of
\* Transmitter.handle_message never fails.
C7_PacketOnlyToIdleTransmitter ==
    /\ failed # "AssertionError: Transmitter.handle_message not IDLE"
    /\ \A s \in Stations :
           /\ PendingPackets(s) + Len(queue[s].data_requests) <= 1
           /\ PendingPackets(s) = 1 => tx[s].state = "IDLE"

\* The queue handed a Transmitter its second packet, after an acknowledgement.
C7_Witness ==
    /\ last.fn = "Transmitter.handle_message"
    /\ last.tx_state = "IDLE"
    /\ tx[last.sta].num_sent >= 1
    /\ tx[last.sta].pdu # NoPDU

\* C8: acknowledged() called in a state other than WAIT_ACK changes
\* nothing: no exception, the same state, pdu, cw, backoff, num_retries,
\* num_sent and timer, the same scheduled events, no request to the queue.
C8_StrayAckIgnored ==
    \A s \in Stations :
        tx[s].state # "WAIT_ACK" => Transmitter_acknowledged(World, s) = World

\* The Receiver finished an ACK addressed to its station while the
\* Transmitter waited in BUSY with a PDU, which it still holds.
C8_Witness ==
    /\ last.fn = "Radio.handle_frame_received"
    /\ last.msg.type = "ACK"
    /\ last.msg.receiver = last.sta
    /\ last.rx_state = "RX"
    /\ last.tx_state = "BUSY"
    /\ tx[last.sta].pdu # NoPDU
    /\ tx[last.sta].num_sent = 0

\* The step is the call `fn` of the queue harness.
IsCall(fn) == last'.fn = fn /\ env'.ops = env.ops + 1

\* C9: get_next(service) on a non-empty queue removes the head packet only,
\* keeps the order of the others, and hands the head to the service as one
\* new zero-delay handle_message event; the handler does not run inside
\* get_next.
C9_GetNextSendsHead ==
    [][(IsCall("Queue.get_next") /\ ~Queue_empty(queue[1])) =>
           /\ queue'[1].packets = Tail(queue[1].packets)
           /\ queue'[1].data_requests = queue[1].data_requests
           /\ events' = Append(events,
                               Event(0, 0, "Mock.handle_message", last'.sta,
                                     "queue", Head(queue[1].packets)))
           /\ mock' = mock
           /\ failed' = ""]_vars

\* get_next was called on a queue of at least two packets.
C9_Witness ==
    /\ last.fn = "Queue.get_next"
    /\ queue[1].packets # <<>>
    /\ Len(queue[1].size_trace) >= 2
    /\ queue[1].size_trace[Len(queue[1].size_trace) - 1]
           = Len(queue[1].packets) + 1
    /\ events # <<>>
    /\ events[Len(events)].sta = last.sta

\* C10: get_next(service) on an empty queue only stores the request; a
\* push while requests are stored hands the packet to the oldest request
\* as one handle_message event, removes that request only, stores no
\* packet and leaves the length and the size trace of the queue unchanged.
C10_PushServesOldestRequest ==
    [][/\ (IsCall("Queue.get_next") /\ Queue_empty(queue[1])) =>
              /\ queue'[1].data_requests =
                     Append(queue[1].data_requests, MockService(last'.sta))
              /\ queue'[1].packets = <<>>
              /\ queue'[1].size_trace = queue[1].size_trace
              /\ events' = events
              /\ mock' = mock
       /\ (IsCall("Queue.push") /\ queue[1].data_requests # <<>>) =>
              /\ queue'[1].data_requests = Tail(queue[1].data_requests)
              /\ queue'[1].packets = queue[1].packets
              /\ queue'[1].packets = <<>>
              /\ queue'[1].size_trace = queue[1].size_trace
              /\ queue'[1].num_dropped = queue[1].num_dropped
              /\ events' = Append(events,
                                  Event(0, 0, "Mock.handle_message",
                                        Head(queue[1].data_requests).sta,
                                        "queue", last'.msg))
              /\ mock' = mock]_vars

\* Two services asked an empty queue, and a push answered the first one:
\* the request of the second one is still stored and nothing was queued.
C10_Witness ==
    /\ last.fn = "Queue.push"
    /\ queue[1].num_arrived = 1
    /\ queue[1].packets = <<>>
    /\ queue[1].size_trace = <<0>>
    /\ Len(queue[1].data_requests) = 1
    /\ events # <<>>
    /\ events[Len(events)].msg = last.msg
    /\ events[Len(events)].sta # queue[1].data_requests[1].sta

C12_QueueIsFifo ==
    net.kind = "queue" => env.accepted = env.left \o queue[1].packets

\* Two different packets were stored, a third push was dropped, and the two
\* left the queue in the order of their pushes, by pop and then by get_next.
C12_Witness ==
    /\ last.fn = "Queue.get_next"
    /\ queue[1].num_dropped = 1
    /\ queue[1].packets = <<>>
    /\ Len(env.left) = 2
    /\ env.left[1] # env.left[2]
    /\ events # <<>>
    /\ events[Len(events)].msg = env.left[2]

\* C13: the scheduler runs events in ascending fire-time order and events of
\* equal fire time in the order they were scheduled. The pending events are
\* kept in that order with delays >= 0 measured from the clock, the clock
\* reads the fire time of the callback that ran last (so it never goes
\* back), and the callbacks that ran are ordered by fire time and, within
\* one fire time, by the number of their schedule call.
C13_EventsRunInTimeThenScheduleOrder ==
    net.kind = "scheduler" =>
        /\ \A i \in DOMAIN events :
               /\ events[i].t >= 0
               /\ events[i].msg.due = env.now + events[i].t
        /\ \A i, j \in DOMAIN events :
               i < j => \/ events[i].t < events[j].t
                        \/ /\ events[i].t = events[j].t
                           /\ events[i].msg.serial < events[j].msg.serial
        /\ env.left # <<>> => env.now = env.left[Len(env.left)].due
        /\ \A i, j \in DOMAIN env.left :
               i < j => \/ env.left[i].due < env.left[j].due
                        \/ /\ env.left[i].due = env.left[j].due
                           /\ env.left[i].serial < env.left[j].serial

\* Three callbacks ran: the first two were due at the same time, the second
\* of them scheduled by the first with delay 0 while a callback scheduled
\* earlier for a later time was pending, which ran after them.
C13_Witness ==
    /\ net.kind = "scheduler"
    /\ last.fn = "Harness.callback"
    /\ Len(env.left) = 3
    /\ env.left[1].due = env.left[2].due
    /\ env.left[2].due < env.left[3].due
    /\ env.left[3].serial < env.left[2].serial

\* The service time of a packet sent after `backoff` slots, written from the
\* frame sizes and the distance of the network.
ExpectedServiceTime(w, s, backoff) ==
    LET packet_duration ==
            ((w.net.payload_size + MAC_HEADER + PHY_HEADER) * 1000)
                \div BITRATE + PREAMBLE
        ack_duration == ((ACK_SIZE + PHY_HEADER) * 1000) \div BITRATE + PREAMBLE
        propagation == (w.net.dist[s][3 - s] * 1000) \div SPEED_OF_LIGHT
    IN  DIFS + SLOT * backoff + packet_duration + SIFS + 2 * propagation
        + ack_duration

\* C14: in a network of two stations without collisions every service time
\* a Transmitter recorded equals DIFS + SLOT * backoff + the duration of the
\* data frame + SIFS + twice the propagation delay + the duration of the
\* ACK frame, where backoff is the value drawn for that packet (so the means
\* satisfy the same equation).
C14_ServiceTimeFormula ==
    (env.statistics /\ net.n = 2 /\ \A s \in 1..2 : rx[s].num_collisions = 0)
    => \A s \in 1..2 :
           /\ Len(tx[s].service_time) = tx[s].n_service_time
           /\ Len(tx[s].service_time) <= Len(tx[s].backoff_vector)
           /\ \A i \in DOMAIN tx[s].service_time :
                  tx[s].service_time[i]
                      = ExpectedServiceTime(World, s, tx[s].backoff_vector[i])

\* Station 2 of a two-station network recorded the service times of two
\* packets, sent after different backoffs.
C14_Witness ==
    /\ env.statistics
    /\ net.n = 2
    /\ rx[1].num_collisions = 0 /\ rx[2].num_collisions = 0
    /\ Len(tx[2].service_time) = 2
    /\ tx[2].backoff_vector[1] = 1
    /\ tx[2].backoff_vector[2] = 0
    /\ tx[2].service_time[1] = tx[2].service_time[2] + SLOT

\* The calls of queue.get_next the Transmitter of s made: one by start() and
\* one by every acknowledged().
GetNextCalls(w, s) ==
    (IF \E i \in DOMAIN w.events : /\ w.events[i].fn = "Transmitter.start"
                                   /\ w.events[i].sta = s
     THEN 0 ELSE 1) + w.tx[s].num_sent

\* C15: in a CollisionDomainSaturatedNetwork the SaturatedQueue of every
\* client has size 0 at all times: each get_next on the empty queue makes
\* one call of source.get_next(), and the packet generated in response goes
\* to the waiting Transmitter without being stored.
C15_SaturatedQueueStaysEmpty ==
    net.kind = "saturated"
    => \A s \in 2..net.n :
           /\ queue[s].packets = <<>>
           /\ queue[s].size_trace = <<0>>
           /\ queue[s].num_dropped = 0
           /\ source[s].num_packets_sent
                  = Min(MaxPackets, GetNextCalls(World, s))
           /\ Len(queue[s].data_requests)
                  = GetNextCalls(World, s) - queue[s].num_arrived

\* A client of a saturated network sent two packets: both passed its queue,
\* which is empty and holds the third request of the Transmitter.
C15_Witness ==
    /\ net.kind = "saturated"
    /\ tx[2].num_sent = 2
    /\ queue[2].num_arrived = 2
    /\ source[2].num_packets_sent = 2
    /\ queue[2].packets = <<>>
    /\ Len(queue[2].data_requests) = 1

\* The step runs the handler `fn` of the first pending event.
Handles(fn) == Fires(fn) /\ last'.fn = fn

Without(seq, i) == SubSeq(seq, 1, i - 1) \o SubSeq(seq, i + 1, Len(seq))

\* C17: for a routable packet received over the 'user' connection,
\* NetworkSwitch sets originator_address to the address of the outgoing
\* interface and assigns osn values 0, 1, 2, ...: the k-th packet the
\* station originates carries osn k - 1, one more than the previous one.
C17_OriginatedOsnCountsUp ==
    [][(/\ Handles("NetworkSwitch.handle_message")
        /\ Head(events).conn = "user"
        /\ Head(events).msg.dst # Head(events).sta
        /\ SwitchTable_get(World, Head(events).sta,
                           Head(events).msg.dst).next_hop # NoAddress) =>
           LET e == Head(events)
           IN  /\ failed' = ""
               /\ \E i \in DOMAIN events' :
                      LET sent == events'[i]
                      IN  /\ Without(events', i) = Pop(World).events
                          /\ sent.fn = "WirelessInterface.handle_message"
                          /\ sent.sta = e.sta
                          /\ sent.msg.data = e.msg.data
                          /\ sent.msg.orig = e.sta
                          /\ sent.msg.snd = e.sta
                          /\ sent.msg.osn = e.msg.data.n - 1
                          /\ sent.msg.osn
                                 = switch[e.sta].osn_table[e.sta] + 1
                          /\ switch'[e.sta].osn_table[e.sta] = sent.msg.osn]_vars

\* The switch of a station has just forwarded the second packet of its
\* user, with osn 1, to the interface.
C17_Witness ==
    /\ last.fn = "NetworkSwitch.handle_message"
    /\ last.conn = "user"
    /\ last.msg.data.n = 2
    /\ switch[last.sta].osn_table[last.sta] = 1
    /\ \E i \in DOMAIN events :
           /\ events[i].fn = "WirelessInterface.handle_message"
           /\ events[i].sta = last.sta
           /\ events[i].msg.orig = last.sta
           /\ events[i].msg.osn = 1

\* The events of handler `fn` that are pending.
Pending(fn) == {i \in DOMAIN events : events[i].fn = fn}

\* The get_next calls the queue received: the requests it stores and the
\* packets it handed over.
WiredRequests ==
    Len(queue[1].data_requests)
    + (queue[1].num_arrived - queue[1].num_dropped - Len(queue[1].packets))

\* C18: a WiredTransceiver transmits one frame at a time. After accepting a
\* packet from the queue it is tx_busy until the frame duration and then the
\* IFS have elapsed; it calls queue.get_next once per transmitted frame, at
\* the end of the IFS (and once at start), so the queue never hands it a
\* packet while it is tx_busy and the RuntimeError is never raised.
C18_OneFrameAtATime ==
    /\ [](net.kind = "wired" =>
            /\ failed = ""
            /\ (wired[1].tx_frame # NoFrame)
                   = (Pending("WiredTransceiver.handle_tx_end") # {})
            /\ wired[1].wait_ifs
                   = (Pending("WiredTransceiver.handle_ifs_end") # {})
            /\ ~(wired[1].tx_frame # NoFrame /\ wired[1].wait_ifs)
            /\ Cardinality(Pending("WiredTransceiver.handle_tx_end")
                           \cup Pending("WiredTransceiver.handle_ifs_end")) <= 1
            /\ WiredRequests
                   = (IF wired[1].started THEN 1 ELSE 0)
                     + wired[1].num_transmitted_packets
                     - (IF wired[1].wait_ifs THEN 1 ELSE 0)
            /\ \A i \in DOMAIN events :
                   (/\ events[i].fn = "WiredTransceiver.handle_message"
                    /\ events[i].conn = "queue")
                   => ~WiredTransceiver_tx_busy(wired[1]))
    /\ [][net.kind = "wired" =>
            /\ (/\ Handles("WiredTransceiver.handle_message")
                /\ Head(events).conn = "queue") =>
                   /\ ~WiredTransceiver_tx_busy(wired[1])
                   /\ wired'[1].tx_frame.packet = Head(events).msg
                   /\ WiredRequests' = WiredRequests
            /\ (WiredTransceiver_tx_busy(wired[1])
                /\ ~WiredTransceiver_tx_busy(wired'[1])) =>
                   Handles("WiredTransceiver.handle_ifs_end")
            /\ WiredRequests' # WiredRequests =>
                   /\ WiredRequests' = WiredRequests + 1
                   /\ \/ Handles("WiredTransceiver.handle_ifs_end")
                      \/ Handles("WiredTransceiver.start")]_vars

\* The transceiver sent two frames and waits for the IFS of the second to
\* end: it made two requests, and no packet comes while it is busy although
\* the queue holds one.
C18_Witness ==
    /\ net.kind = "wired"
    /\ wired[1].num_transmitted_packets = 2
    /\ wired[1].wait_ifs
    /\ wired[1].ifs > 0
    /\ Len(mock[1]) = 2
    /\ Len(queue[1].packets) = 1
    /\ WiredRequests = 2
    /\ failed = ""

\* Equality of fractions.
SameFraction(a, b) == a[1] * b[2] = b[1] * a[2]

\* The states of the chain with windows W, 2W, ..., 2^m W, flattened.
ChainIndex(W, stage, b) == W * (2 ^ stage - 1) + b
ChainStages(W, cwmax) == {i \in 0..(cwmax \div W) : W * (2 ^ i) <= cwmax}
ChainStates(W, cwmax) ==
    {<<stage, b>> \in ChainStages(W, cwmax) \X (0..(cwmax - 1)) :
         b < W * (2 ^ stage)}

\* The entry the chain has in row (stage, b) and column c.
ChainEntry(W, cwmax, p, stage, b, c) ==
    LET m == CHOOSE i \in ChainStages(W, cwmax) :
                 \A j \in ChainStages(W, cwmax) : j <= i
        next == IF stage = m THEN m ELSE stage + 1
        cw_next == W * (2 ^ next)
    IN  IF b > 0
        THEN IF c = ChainIndex(W, stage, b - 1) THEN One ELSE Zero
        ELSE IF /\ c >= ChainIndex(W, next, 0)
                /\ c < ChainIndex(W, next, 0) + cw_next
             THEN <<p, ProbabilityDenominator * cw_next>>
             ELSE Zero

\* C19: get_bianchi_time_matrix builds a square matrix of order
\* W * (2^(m+1) - 1) over the states (stage, b) flattened as
\* W * (2^stage - 1) + b: a row with b > 0 has a single 1, in column
\* (stage, b - 1); a row with b = 0 has p / CW_next in all CW_next columns of
\* the next stage (of the same stage when stage = m); every other entry is 0.
\* For m = 0, W = 4 it is [[p/4,p/4,p/4,p/4],[1,0,0,0],[0,1,0,0],[0,0,1,0]].
C19_TimeMatrixShape ==
    (net.kind = "bianchi" /\ bianchi.mat # <<>>) =>
        LET W == bianchi.cwmin
            cwmax == bianchi.cwmax
            m == Cardinality(ChainStages(W, cwmax)) - 1
            order == W * (2 ^ (m + 1) - 1)
            mat == bianchi.mat
            quarter == <<bianchi.p, 4 * ProbabilityDenominator>>
        IN  /\ DOMAIN mat = 0..(order - 1)
            /\ \A r \in DOMAIN mat : DOMAIN mat[r] = 0..(order - 1)
            /\ {ChainIndex(W, st[1], st[2]) : st \in ChainStates(W, cwmax)}
                   = 0..(order - 1)
            /\ \A st \in ChainStates(W, cwmax) : \A c \in 0..(order - 1) :
                   SameFraction(mat[ChainIndex(W, st[1], st[2])][c],
                                ChainEntry(W, cwmax, bianchi.p, st[1], st[2],
                                           c))
            /\ (W = 4 /\ m = 0) =>
                   /\ \A c \in 0..3 : SameFraction(mat[0][c], quarter)
                   /\ \A r \in 1..3 : \A c \in 0..3 :
                          mat[r][c] = IF c = r - 1 THEN One ELSE Zero

\* The matrix of the chain with windows 2 and 4 was built for p = 1/2: the
\* attempt row of stage 0 leads to the four states of stage 1, the attempt
\* row of stage 1 back into stage 1, and the backoff rows count down.
C19_Witness ==
    /\ net.kind = "bianchi"
    /\ bianchi.cwmin = 2 /\ bianchi.cwmax = 4 /\ bianchi.p = 2
    /\ bianchi.mat # <<>>
    /\ \A c \in 2..5 : SameFraction(bianchi.mat[0][c], <<1, 8>>)
    /\ \A c \in 2..5 : SameFraction(bianchi.mat[2][c], <<1, 8>>)
    /\ bianchi.mat[0][0] = Zero /\ bianchi.mat[0][1] = Zero
    /\ bianchi.mat[1][0] = One
    /\ bianchi.mat[5][4] = One

\* C20: in the chain built by bianchi_time every state carries the
\* holding-time distribution of its kind, for all stages 0..m: a backoff
\* state (stage, b > 0) the mixture of the empty, successful-neighbour and
\* collided-neighbour slots, an attempt state (stage, 0) the mixture of the
\* own collision and the own successful transmission; no state of any stage
\* has a zero holding time.
C20_EveryStateHasHoldingTime ==
    (net.kind = "bianchi" /\ bianchi.process # <<>>) =>
        \A st \in ChainStates(bianchi.cwmin, bianchi.cwmax) :
            LET d == bianchi.process.time_dists[
                         ChainIndex(bianchi.cwmin, st[1], st[2])]
            IN  /\ d # Constant0
                /\ d = IF st[2] > 0 THEN WaitSlot ELSE TransSlot

\* The pending timers of the Transmitter of s.
TxTimers(evs, s) ==
    {i \in DOMAIN evs :
         /\ evs[i].sta = s
         /\ evs[i].fn \in {"Transmitter.handle_backoff_timeout",
                           "Transmitter.handle_ack_timeout"}}

\* The Transmitter of s is in BUSY without a timer when the channel is busy,
\* and otherwise in BACKOFF with one timer, a backoff timeout after DIFS.
EnteredBackoff(s) ==
    IF channel[s].is_busy
    THEN /\ tx'[s].state = "BUSY"
         /\ TxTimers(events', s) = {}
    ELSE /\ tx'[s].state = "BACKOFF"
         /\ \E i \in DOMAIN events' :
                /\ TxTimers(events', s) = {i}
                /\ events'[i].fn = "Transmitter.handle_backoff_timeout"
                /\ events'[i].t = DIFS
                /\ events'[i].id = tx'[s].timeout

\* C21: on each ACK timeout the Transmitter increments num_retries, sets
\* CW = min(2 * CW, cwmax), draws a backoff with 0 <= backoff < CW and goes
\* to BUSY if the channel is busy, otherwise to BACKOFF with a DIFS timer;
\* so after k timeouts for a packet CW = min(cwmin * 2^k, cwmax), and
\* cwmin <= CW <= cwmax whenever a PDU is held.
C21_AckTimeoutDoublesWindow ==
    /\ [](\A s \in net.built :
              tx[s].pdu # NoPDU =>
                  /\ tx[s].num_retries >= 1
                  /\ tx[s].cw = Min(CWMIN * 2 ^ (tx[s].num_retries - 1), CWMAX)
                  /\ CWMIN <= tx[s].cw /\ tx[s].cw <= CWMAX)
    /\ [][Handles("Transmitter.handle_ack_timeout") =>
              LET s == Head(events).sta
              IN  /\ failed' = ""
                  /\ tx'[s].num_retries = tx[s].num_retries + 1
                  /\ tx'[s].cw = Min(2 * tx[s].cw, CWMAX)
                  /\ 0 <= tx'[s].backoff /\ tx'[s].backoff < tx'[s].cw
                  /\ tx'[s].pdu = tx[s].pdu
                  /\ EnteredBackoff(s)]_vars

\* The third ACK timeout of a packet has just fired: the window stays at
\* the cap it reached with the second one, and the backoff drawn is among
\* the largest the window allows.
C21_Witness ==
    /\ last.fn = "Transmitter.handle_ack_timeout"
    /\ tx[last.sta].num_retries = 4
    /\ tx[last.sta].cw = CWMAX
    /\ tx[last.sta].backoff = CWMAX - 1
    /\ tx[last.sta].state = "BACKOFF"
    /\ failed = ""

\* C22: when the queue delivers a payload to an IDLE Transmitter, it sets
\* CW = cwmin whatever CW the previous packet reached, sets num_retries = 1,
\* draws a backoff with 0 <= backoff < CW, builds one DataPDU with the next
\* sequence number, and enters BUSY if the channel is busy, otherwise
\* BACKOFF with exactly one DIFS timer.
C22_NewPacketResetsWindow ==
    [][(/\ Handles("Transmitter.handle_message")
        /\ Head(events).conn = "queue"
        /\ tx[Head(events).sta].state = "IDLE") =>
           LET s == Head(events).sta
               packet == Head(events).msg
           IN  /\ failed' = ""
               /\ tx'[s].cw = CWMIN
               /\ tx'[s].num_retries = 1
               /\ 0 <= tx'[s].backoff /\ tx'[s].backoff < tx'[s].cw
               /\ tx'[s].pdu = DataPDU(packet, PHY_HEADER + MAC_HEADER,
                                       tx[s].seqn, s, packet.rcv)
               /\ tx'[s].seqn = tx[s].seqn + 1
               /\ tx'[s].n_backoff = tx[s].n_backoff + 1
               /\ EnteredBackoff(s)]_vars

\* A Transmitter has just taken its second packet after the first one
\* needed a retransmission with the doubled window: the window is cwmin
\* again.
C22_Witness ==
    /\ last.fn = "Transmitter.handle_message"
    /\ tx[last.sta].seqn = 2
    /\ tx[last.sta].n_backoff = 3
    /\ tx[last.sta].num_sent = 1
    /\ tx[last.sta].cw = CWMIN
    /\ tx[last.sta].num_retries = 1
    /\ tx[last.sta].pdu.seqn = 1
    /\ failed = ""

\* C23: a channel-busy notification in BACKOFF cancels the pending DIFS or
\* slot timer and moves the Transmitter to BUSY with the backoff counter
\* unchanged; a channel-ready notification in BUSY moves it to BACKOFF and
\* arms a full DIFS timer; so no backoff timeout (decrement or start of a
\* transmission) happens sooner than DIFS after the channel became ready.
C23_DifsAfterBusy ==
    /\ [](\A s \in net.built :
              /\ tx[s].state = "BACKOFF" => ~channel[s].is_busy
              /\ tx[s].state = "BUSY" => channel[s].is_busy)
    /\ [][\A s \in net.built :
              /\ (/\ tx[s].state = "BACKOFF"
                  /\ ~channel[s].is_busy /\ channel'[s].is_busy) =>
                     /\ tx'[s].state = "BUSY"
                     /\ tx'[s].backoff = tx[s].backoff
                     /\ tx'[s].pdu = tx[s].pdu
                     /\ TxTimers(events', s) = {}
              /\ (/\ tx[s].state = "BUSY"
                  /\ channel[s].is_busy /\ ~channel'[s].is_busy) =>
                     /\ tx'[s].state = "BACKOFF"
                     /\ tx'[s].backoff = tx[s].backoff
                     /\ tx'[s].pdu = tx[s].pdu
                     /\ \E i \in DOMAIN events' :
                            /\ TxTimers(events', s) = {i}
                            /\ events'[i].fn
                                   = "Transmitter.handle_backoff_timeout"
                            /\ events'[i].t = DIFS
                            /\ events'[i].id = tx'[s].timeout
              /\ (/\ Handles("Transmitter.handle_backoff_timeout")
                  /\ Head(events).sta = s) =>
                     /\ ~channel[s].is_busy
                     /\ channel[s].ready_for + Head(events).t >= DIFS]_vars

\* A frame end made the channel ready again while the Transmitter waited in
\* BUSY with slots left to count: it is back in BACKOFF with the same
\* counter and a DIFS timer.
C23_Witness ==
    /\ last.fn = "Radio.handle_frame_received"
    /\ last.tx_state = "BUSY"
    /\ tx[last.sta].state = "BACKOFF"
    /\ tx[last.sta].backoff > 0
    /\ ~channel[last.sta].is_busy
    /\ channel[last.sta].ready_for = 0
    /\ \E i \in DOMAIN events :
           /\ events[i].fn = "Transmitter.handle_backoff_timeout"
           /\ events[i].sta = last.sta
           /\ events[i].t = DIFS
    /\ failed = ""

\* The number of pending events of handler fn at station s.
CountEvents(evs, fn, s) ==
    Cardinality({i \in DOMAIN evs : evs[i].fn = fn /\ evs[i].sta = s})

\* The calls of Radio.transmit station s made in this step: each one
\* schedules one handle_frame_transmitted of its own radio.
TransmitCalls(s) ==
    CountEvents(events', "Radio.handle_frame_transmitted", s)
    - CountEvents(Pop(World).events, "Radio.handle_frame_transmitted", s)

\* C24: when the backoff timer fires the Transmitter starts transmitting
\* (state TX, exactly one Radio.transmit(pdu)) if and only if backoff = 0;
\* otherwise it decrements backoff by exactly 1, stays in BACKOFF and arms
\* the timer again for one slot; backoff is never negative while a PDU is
\* held.
C24_TransmitAtZeroBackoff ==
    /\ [](\A s \in net.built : tx[s].pdu # NoPDU => tx[s].backoff >= 0)
    /\ [][Handles("Transmitter.handle_backoff_timeout") =>
              LET s == Head(events).sta
              IN  /\ failed' = ""
                  /\ tx'[s].pdu = tx[s].pdu
                  /\ tx[s].pdu # NoPDU
                  /\ IF tx[s].backoff = 0
                     THEN /\ tx'[s].state = "TX"
                          /\ tx'[s].backoff = 0
                          /\ TransmitCalls(s) = 1
                          /\ TxTimers(events', s) = {}
                          /\ \A p \in 1..Len(cm.peers[s]) :
                                 \E i \in DOMAIN events' :
                                     /\ events'[i].fn = "Radio.receive"
                                     /\ events'[i].sta = cm.peers[s][p]
                                     /\ events'[i].msg = tx[s].pdu
                     ELSE /\ tx'[s].state = "BACKOFF"
                          /\ tx[s].state = "BACKOFF"
                          /\ tx'[s].backoff = tx[s].backoff - 1
                          /\ TransmitCalls(s) = 0
                          /\ \E i \in DOMAIN events' :
                                 /\ TxTimers(events', s) = {i}
                                 /\ events'[i].fn
                                        = "Transmitter.handle_backoff_timeout"
                                 /\ events'[i].t = SLOT
                                 /\ events'[i].id = tx'[s].timeout]_vars

\* The Transmitter counted its last slot down and, one slot later, has just
\* started the transmission of its PDU.
C24_Witness ==
    /\ last.fn = "Transmitter.handle_backoff_timeout"
    /\ last.tx_state = "BACKOFF"
    /\ tx[last.sta].state = "TX"
    /\ tx[last.sta].backoff = 0
    /\ tx[last.sta].cw > CWMIN
    /\ tx[last.sta].pdu # NoPDU
    /\ CountEvents(events, "Radio.handle_frame_transmitted", last.sta) = 1
    /\ failed = ""

\* The payload of pdu was received without collision by station d: d took
\* it in RX, acknowledged it and sent it upward.
ReceivedBy(d, pdu) ==
    \E i \in DOMAIN up_sent[d] : up_sent[d][i] = pdu.packet

\* C25 as stated: the Transmitter leaves TX for WAIT_ACK with one ACK
\* timeout, and a DATA frame its destination received without collision is
\* acknowledged on that attempt, so no ACK timeout fires for a PDU the
\* destination has received.
C25_CleanDataIsAcknowledged ==
    [][Handles("Transmitter.handle_ack_timeout") =>
           LET s == Head(events).sta
           IN  ~ReceivedBy(tx[s].pdu.receiver, tx[s].pdu)]_vars

\* The pending frame events that carry an ACK addressed to station s.
AckEvents(s) ==
    {i \in DOMAIN events :
        /\ events[i].fn \in {"Radio.receive", "Radio.handle_frame_received"}
        /\ events[i].sta = s
        /\ events[i].msg.type = "ACK"
        /\ events[i].msg.receiver = s}

\* The time until the frame of event i has been received completely.
FrameEnd(i) ==
    IF events[i].fn = "Radio.receive"
    THEN events[i].t + AirFrame_duration(events[i].msg)
    ELSE events[i].t

\* C25: at the end of its own DATA transmission the Transmitter moves from
\* TX to WAIT_ACK and arms exactly one ACK timeout of SIFS + (ack_size +
\* mac_header_size + phy_header_size) / bitrate + preamble +
\* 6 max_propagation; every ACK on its way to the sender ends strictly
\* before that timeout fires; and the packet is acknowledged on that attempt
\* when the ACK ends at the sender without collision (Receiver in RX).
C25_AckEndsBeforeTimeout ==
    /\ [](\A s \in net.built : \A i \in AckEvents(s) :
              /\ tx[s].state = "WAIT_ACK"
              /\ tx[s].pdu.receiver = events[i].msg.sender
              /\ \E j \in DOMAIN events :
                     /\ TxTimers(events, s) = {j}
                     /\ events[j].fn = "Transmitter.handle_ack_timeout"
                     /\ FrameEnd(i) < events[j].t)
    /\ [][/\ \A s \in net.built :
                 (/\ Handles("Radio.handle_frame_transmitted")
                  /\ Head(events).sta = s
                  /\ tx[s].state = "TX") =>
                     /\ tx'[s].state = "WAIT_ACK"
                     /\ tx'[s].pdu = tx[s].pdu
                     /\ \E j \in DOMAIN events' :
                            /\ TxTimers(events', s) = {j}
                            /\ events'[j].fn
                                   = "Transmitter.handle_ack_timeout"
                            /\ events'[j].id = tx'[s].timeout
                            /\ events'[j].t
                                   = SIFS
                                     + ((ACK_SIZE + MAC_HEADER + PHY_HEADER)
                                        * 1000) \div BITRATE
                                     + PREAMBLE + 6 * MaxPropagation
          /\ \A s \in net.built :
                 (/\ Handles("Radio.handle_frame_received")
                  /\ Head(events).sta = s
                  /\ Head(events).msg.type = "ACK"
                  /\ Head(events).msg.receiver = s
                  /\ rx[s].state = "RX") =>
                     /\ tx'[s].num_sent = tx[s].num_sent + 1
                     /\ tx'[s].pdu # tx[s].pdu
                     /\ \A j \in DOMAIN events' :
                            events'[j].sta = s =>
                                events'[j].fn
                                    # "Transmitter.handle_ack_timeout"]_vars

\* The destination received the DATA frame without collision and sent its
\* ACK, the ACK collided at the sender with the frame of a station the
\* destination cannot hear, and the ACK timeout of the sender has fired.
C25_Witness ==
    /\ last.fn = "Transmitter.handle_ack_timeout"
    /\ tx[last.sta].pdu # NoPDU
    /\ ReceivedBy(tx[last.sta].pdu.receiver, tx[last.sta].pdu)
    /\ tx[last.sta].num_retries = 2
    /\ rx[last.sta].num_collisions >= 1
    /\ failed = ""

\* The requests queue.get_next(transmitter) station s made in this step:
\* each one is either stored by the queue or answered with one packet.
GetNextRequests(s) ==
    (Len(queue'[s].data_requests) - Len(queue[s].data_requests))
    + (CountEvents(events', "Transmitter.handle_message", s)
       - CountEvents(Pop(World).events, "Transmitter.handle_message", s))

\* C26: an ACK confirmed by the Receiver while the Transmitter is in
\* WAIT_ACK cancels the ACK timeout, clears the PDU, records one service-time
\* sample and one retry-count sample, increments num_sent by exactly 1,
\* moves the Transmitter to IDLE and issues exactly one queue.get_next.
C26_AckCompletesService ==
    [][\A s \in net.built :
           (/\ Handles("Radio.handle_frame_received")
            /\ Head(events).sta = s
            /\ Head(events).msg.type = "ACK"
            /\ Head(events).msg.receiver = s
            /\ rx[s].state = "RX"
            /\ tx[s].state = "WAIT_ACK") =>
               /\ failed' = ""
               /\ TxTimers(events, s) # {}
               /\ TxTimers(events', s) = {}
               /\ tx[s].pdu # NoPDU
               /\ tx'[s].pdu = NoPDU
               /\ tx'[s].state = "IDLE"
               /\ tx'[s].num_sent = tx[s].num_sent + 1
               /\ tx'[s].n_service_time = tx[s].n_service_time + 1
               /\ tx'[s].n_retries = tx[s].n_retries + 1
               /\ env.statistics =>
                      /\ Len(tx'[s].service_time)
                             = Len(tx[s].service_time) + 1
                      /\ tx'[s].service_time[Len(tx'[s].service_time)]
                             = Pop(World).tx[s].service_age
               /\ tx'[s].service_age = NoServiceTime
               /\ GetNextRequests(s) = 1
               /\ \A o \in net.built \ {s} : tx'[o] = Pop(World).tx[o]]_vars

\* The ACK of the second packet of a station has just been confirmed; the
\* queue was empty and holds the request of the Transmitter.
C26_Witness ==
    /\ last.fn = "Radio.handle_frame_received"
    /\ last.msg.type = "ACK"
    /\ last.msg.receiver = last.sta
    /\ last.tx_state = "WAIT_ACK"
    /\ last.rx_state = "RX"
    /\ tx[last.sta].state = "IDLE"
    /\ tx[last.sta].pdu = NoPDU
    /\ tx[last.sta].num_sent = 2
    /\ queue[last.sta].data_requests = <<TxService(last.sta)>>
    /\ failed = ""

\* C27: no superseded Transmitter timer ever fires: at most one Transmitter
\* timer (DIFS/slot or ACK timeout) is pending at any time, and it is the
\* one the state waits for; the backoff timer fires only in BACKOFF and the
\* ACK timeout only in WAIT_ACK (the assertion of handle_ack_timeout never
\* fails), also when an ACK ends at the timestamp of the timeout.
C27_NoSupersededTimerFires ==
    /\ [](/\ failed # "AssertionError: handle_ack_timeout not WAIT_ACK"
          /\ \A s \in net.built :
                 /\ Cardinality(TxTimers(events, s)) <= 1
                 /\ \A i \in TxTimers(events, s) :
                        /\ events[i].id = tx[s].timeout
                        /\ events[i].fn = "Transmitter.handle_backoff_timeout"
                               => tx[s].state = "BACKOFF"
                        /\ events[i].fn = "Transmitter.handle_ack_timeout"
                               => tx[s].state = "WAIT_ACK")
    /\ [][/\ Handles("Transmitter.handle_backoff_timeout") =>
                 /\ tx[Head(events).sta].state = "BACKOFF"
                 /\ Head(events).id = tx[Head(events).sta].timeout
                 /\ failed' = ""
          /\ Handles("Transmitter.handle_ack_timeout") =>
                 /\ tx[Head(events).sta].state = "WAIT_ACK"
                 /\ Head(events).id = tx[Head(events).sta].timeout
                 /\ failed' = ""]_vars

\* The ACK timeout has fired in WAIT_ACK at the very timestamp at which an
\* ACK addressed to the station ends; the Transmitter has left WAIT_ACK and
\* no ACK timeout is pending.
C27_Witness ==
    /\ last.fn = "Transmitter.handle_ack_timeout"
    /\ last.tx_state = "WAIT_ACK"
    /\ rx[last.sta].state = "RX"
    /\ tx[last.sta].state = "BUSY"
    /\ TxTimers(events, last.sta) = {}
    /\ events # <<>>
    /\ Head(events).fn = "Radio.handle_frame_received"
    /\ Head(events).sta = last.sta
    /\ Head(events).t = 0
    /\ Head(events).msg.type = "ACK"
    /\ Head(events).msg.receiver = last.sta
    /\ failed = ""

\* C28: on every frame start the Receiver adds the PDU to rxbuf; it moves
\* IDLE -> RX and marks the channel busy if rxbuf was empty, moves to
\* COLLIDED if it was in RX or in IDLE with a non-empty rxbuf, and keeps its
\* state in every other state (COLLIDED, TX1, TX2, WAIT_SEND_ACK, SEND_ACK).
C28_FrameStart ==
    [][Handles("Radio.receive") =>
           LET s == Head(events).sta
               pdu == Head(events).msg
               st == rx[s].state
           IN  /\ failed' = ""
               /\ pdu \notin rx[s].rxbuf
               /\ rx'[s].rxbuf = rx[s].rxbuf \cup {pdu}
               /\ IF st = "IDLE" /\ rx[s].rxbuf = {}
                  THEN /\ rx'[s].state = "RX"
                       /\ channel'[s].is_busy
                       /\ rx'[s].num_collisions = rx[s].num_collisions
                  ELSE IF st = "RX" \/ (st = "IDLE" /\ rx[s].rxbuf # {})
                  THEN /\ rx'[s].state = "COLLIDED"
                       /\ channel'[s].is_busy = channel[s].is_busy
                       /\ rx'[s].num_collisions = rx[s].num_collisions + 1
                  ELSE /\ st \in {"COLLIDED", "TX1", "TX2", "WAIT_SEND_ACK",
                                  "SEND_ACK"}
                       /\ rx'[s].state = st
                       /\ channel'[s].is_busy = channel[s].is_busy
                       /\ rx'[s].num_collisions = rx[s].num_collisions
                       /\ tx'[s] = Pop(World).tx[s]]_vars

\* A frame has just started at a Receiver that transmits over a collided
\* reception (TX2): the state is kept, the frame is in rxbuf.
C28_Witness ==
    /\ last.fn = "Radio.receive"
    /\ last.rx_state = "TX2"
    /\ rx[last.sta].state = "TX2"
    /\ last.msg \in rx[last.sta].rxbuf
    /\ tx[last.sta].state = "TX"
    /\ failed = ""

\* C29: whenever a frame end is processed in RX, rxbuf becomes empty (RX
\* holds exactly the frame that ends, the assertion of finish_receive never
\* fails); the Receiver goes to WAIT_SEND_ACK with a SIFS timer if the PDU
\* is DATA addressed to it, calls transmitter.acknowledged() and goes to
\* IDLE with the channel ready if it is an ACK addressed to it, and otherwise
\* goes to IDLE with the channel ready without acknowledging or delivering
\* the overheard frame.
C29_FrameEndInRx ==
    /\ [](/\ failed \notin {"AssertionError: not rxbuf",
                            "AssertionError: pdu in rxbuf"}
          /\ \A s \in net.built :
                 rx[s].state = "RX" => Cardinality(rx[s].rxbuf) = 1)
    /\ [][\A s \in net.built :
              (/\ Handles("Radio.handle_frame_received")
               /\ Head(events).sta = s
               /\ rx[s].state = "RX") =>
                  LET pdu == Head(events).msg
                      timers == CountEvents(events', "Receiver.handle_timeout", s)
                                - CountEvents(Pop(World).events,
                                              "Receiver.handle_timeout", s)
                  IN  /\ failed' = ""
                      /\ rx[s].rxbuf = {pdu}
                      /\ rx'[s].rxbuf = {}
                      /\ up_sent' = up_sent
                      /\ rx'[s].num_received = rx[s].num_received
                      /\ TransmitCalls(s) = 0
                      /\ IF pdu.receiver = s /\ pdu.type = "DATA"
                         THEN /\ rx'[s].state = "WAIT_SEND_ACK"
                              /\ rx'[s].cur_tx_pdu = pdu
                              /\ timers = 1
                              /\ \E i \in DOMAIN events' :
                                     /\ events'[i].fn = "Receiver.handle_timeout"
                                     /\ events'[i].sta = s
                                     /\ events'[i].t = SIFS
                              /\ channel'[s].is_busy
                              /\ tx'[s] = Pop(World).tx[s]
                         ELSE IF pdu.receiver = s /\ pdu.type = "ACK"
                         THEN /\ rx'[s].state = "IDLE"
                              /\ ~channel'[s].is_busy
                              /\ timers = 0
                              /\ tx'[s].num_sent
                                     = tx[s].num_sent
                                       + (IF tx[s].state = "WAIT_ACK"
                                          THEN 1 ELSE 0)
                              /\ tx[s].state = "WAIT_ACK"
                                     => tx'[s].pdu = NoPDU
                         ELSE /\ rx'[s].state = "IDLE"
                              /\ ~channel'[s].is_busy
                              /\ timers = 0
                              /\ rx'[s].cur_tx_pdu = rx[s].cur_tx_pdu
                              /\ tx'[s].num_sent = tx[s].num_sent
                              /\ tx'[s].pdu = tx[s].pdu
                              /\ tx[s].state = "WAIT_ACK"
                                     => tx'[s].state = "WAIT_ACK"]_vars

\* An ACK addressed to another station ended at a Receiver in RX: the
\* Receiver is IDLE with an empty rxbuf and the channel is ready.
C29_Witness ==
    /\ last.fn = "Radio.handle_frame_received"
    /\ last.rx_state = "RX"
    /\ last.msg.type = "ACK"
    /\ last.msg.receiver # last.sta
    /\ rx[last.sta].state = "IDLE"
    /\ rx[last.sta].rxbuf = {}
    /\ ~channel[last.sta].is_busy
    /\ failed = ""

\* C30: on a frame end processed in COLLIDED the Receiver returns to IDLE
\* and marks the channel ready exactly when the removed PDU was the last one
\* in rxbuf; while any other frame is still in flight it stays COLLIDED and
\* the channel stays not ready.
C30_FrameEndInCollided ==
    [][\A s \in net.built :
           (/\ Handles("Radio.handle_frame_received")
            /\ Head(events).sta = s
            /\ rx[s].state = "COLLIDED") =>
               /\ failed' = ""
               /\ rx'[s].rxbuf = rx[s].rxbuf \ {Head(events).msg}
               /\ IF rx'[s].rxbuf = {}
                  THEN /\ rx'[s].state = "IDLE"
                       /\ ~channel'[s].is_busy
                  ELSE /\ rx'[s].state = "COLLIDED"
                       /\ channel'[s].is_busy]_vars

\* C31: when the station's own transmission ends, from TX1 the Receiver goes
\* to COLLIDED and marks the channel busy if rxbuf is non-empty, else to
\* IDLE; from TX2 it goes to COLLIDED if rxbuf is non-empty, else marks the
\* channel ready and goes to IDLE.
C31_OwnTransmissionEnds ==
    [][\A s \in net.built :
           (/\ Handles("Radio.handle_frame_transmitted")
            /\ Head(events).sta = s
            /\ rx[s].state \in {"TX1", "TX2"}) =>
               /\ failed' = ""
               /\ rx'[s].rxbuf = rx[s].rxbuf
               /\ rx'[s].num_received = rx[s].num_received
               /\ up_sent' = up_sent
               /\ IF rx[s].rxbuf # {}
                  THEN /\ rx'[s].state = "COLLIDED"
                       /\ rx'[s].num_collisions = rx[s].num_collisions + 1
                       /\ channel'[s].is_busy
                              = IF rx[s].state = "TX1"
                                THEN TRUE ELSE channel[s].is_busy
                  ELSE /\ rx'[s].state = "IDLE"
                       /\ rx'[s].num_collisions = rx[s].num_collisions
                       /\ channel'[s].is_busy
                              = IF rx[s].state = "TX2"
                                THEN FALSE ELSE channel[s].is_busy]_vars

\* The station's transmission ended in TX1 while a frame of a neighbour was
\* arriving: the Receiver is COLLIDED and the channel is busy.
C31_Witness ==
    /\ last.fn = "Radio.handle_frame_transmitted"
    /\ last.rx_state = "TX1"
    /\ rx[last.sta].state = "COLLIDED"
    /\ rx[last.sta].rxbuf # {}
    /\ channel[last.sta].is_busy
    /\ tx[last.sta].state = "WAIT_ACK"
    /\ failed = ""

\* The pending frame starts (Radio.receive) of frames sent by station s.
FrameStarts(evs, s) ==
    {i \in DOMAIN evs : evs[i].fn = "Radio.receive" /\ evs[i].msg.sender = s}

\* C32: when the SIFS timer fires the Receiver is in WAIT_SEND_ACK (the
\* assertion of handle_timeout never fails); it builds one AckPDU whose
\* receiver address is the sender address of the DATA PDU just received and
\* whose sender address is its own, enters SEND_ACK and calls Radio.transmit
\* exactly once.
C32_AckAfterSifs ==
    /\ [](/\ failed # "AssertionError: handle_timeout not WAIT_SEND_ACK"
          /\ \A s \in net.built :
                 /\ CountEvents(events, "Receiver.handle_timeout", s)
                        = IF rx[s].state = "WAIT_SEND_ACK" THEN 1 ELSE 0
                 /\ rx[s].state \in {"WAIT_SEND_ACK", "SEND_ACK"} =>
                        /\ rx[s].cur_tx_pdu.type = "DATA"
                        /\ rx[s].cur_tx_pdu.receiver = s)
    /\ [][Handles("Receiver.handle_timeout") =>
              LET s == Head(events).sta
                  data == rx[s].cur_tx_pdu
                  before == FrameStarts(Pop(World).events, s)
              IN  /\ rx[s].state = "WAIT_SEND_ACK"
                  /\ failed' = ""
                  /\ rx'[s].state = "SEND_ACK"
                  /\ rx'[s].cur_tx_pdu = data
                  /\ TransmitCalls(s) = 1
                  /\ before = {}
                  /\ Cardinality(FrameStarts(events', s)) = Len(cm.peers[s])
                  /\ \A i \in FrameStarts(events', s) :
                         /\ events'[i].msg.type = "ACK"
                         /\ events'[i].msg.sender = s
                         /\ events'[i].msg.receiver = data.sender
                         /\ events'[i].msg.header_size = PHY_HEADER
                         /\ \A j \in FrameStarts(events', s) :
                                events'[j].msg = events'[i].msg
                  /\ \E i \in FrameStarts(events', s) :
                         events'[i].sta = data.sender
                  /\ tx'[s] = Pop(World).tx[s]
                  /\ up_sent' = up_sent]_vars

\* The SIFS timer of a station with two neighbours fired: the Receiver is in
\* SEND_ACK and an ACK for the sender of the DATA PDU is on its way to both.
C32_Witness ==
    /\ last.fn = "Receiver.handle_timeout"
    /\ last.rx_state = "WAIT_SEND_ACK"
    /\ rx[last.sta].state = "SEND_ACK"
    /\ Cardinality(FrameStarts(events, last.sta)) = 2
    /\ \A i \in FrameStarts(events, last.sta) :
           /\ events[i].msg.type = "ACK"
           /\ events[i].msg.receiver = rx[last.sta].cur_tx_pdu.sender
    /\ CountEvents(events, "Radio.handle_frame_transmitted", last.sta) = 1
    /\ failed = ""

\* C33: when the Receiver's own ACK transmission ends (state SEND_ACK), it
\* sends the buffered DATA payload upward once, increments num_received by
\* exactly 1, clears the current-PDU reference, marks the channel ready and
\* goes to IDLE.
C33_AckSentDelivers ==
    [][\A s \in net.built :
           (/\ Handles("Radio.handle_frame_transmitted")
            /\ Head(events).sta = s
            /\ rx[s].state = "SEND_ACK") =>
               LET payload == rx[s].cur_tx_pdu.packet
               IN  /\ failed' = ""
                   /\ rx[s].cur_tx_pdu.type = "DATA"
                   /\ up_sent'[s] = Append(up_sent[s], payload)
                   /\ \A o \in Stations \ {s} : up_sent'[o] = up_sent[o]
                   /\ CountEvents(events', "WirelessInterface.handle_message", s)
                          = CountEvents(Pop(World).events,
                                        "WirelessInterface.handle_message", s)
                            + 1
                   /\ \E i \in DOMAIN events' :
                          /\ events'[i].fn = "WirelessInterface.handle_message"
                          /\ events'[i].sta = s
                          /\ events'[i].conn = "_receiver"
                          /\ events'[i].msg = payload
                   /\ rx'[s].num_received = rx[s].num_received + 1
                   /\ rx'[s].cur_tx_pdu = NoPDU
                   /\ rx'[s].state = "IDLE"
                   /\ rx'[s].rxbuf = rx[s].rxbuf
                   /\ rx'[s].num_collisions = rx[s].num_collisions
                   /\ ~channel'[s].is_busy
                   /\ tx'[s].state # "BUSY"]_vars

\* The second ACK of a Receiver has been sent: both payloads went upward.
C33_Witness ==
    /\ last.fn = "Radio.handle_frame_transmitted"
    /\ last.rx_state = "SEND_ACK"
    /\ rx[last.sta].state = "IDLE"
    /\ rx[last.sta].cur_tx_pdu = NoPDU
    /\ rx[last.sta].num_received = 2
    /\ Len(up_sent[last.sta]) = 2
    /\ ~channel[last.sta].is_busy
    /\ failed = ""

\* C34: Receiver.num_collisions equals the number of transitions into
\* COLLIDED from a different state (from RX, from IDLE with a residual
\* buffer, from TX1 or from TX2): it starts at 0, every such entry adds
\* exactly 1, and no other step, in particular no frame that arrives while
\* the Receiver is COLLIDED, changes it.
C34_CollisionsCountEntries ==
    /\ \A s \in net.built : rx[s].num_collisions = 0
    /\ [][\A s \in net.built :
              IF rx'[s].state = "COLLIDED" /\ rx[s].state # "COLLIDED"
              THEN /\ rx'[s].num_collisions = rx[s].num_collisions + 1
                   /\ \/ rx[s].state = "RX"
                      \/ rx[s].state = "IDLE" /\ rx[s].rxbuf # {}
                      \/ rx[s].state \in {"TX1", "TX2"} /\ rx[s].rxbuf # {}
              ELSE rx'[s].num_collisions = rx[s].num_collisions]_vars

\* A third frame started at a Receiver that was still COLLIDED after the
\* first of two colliding frames had ended: one collision is counted.
C34_Witness ==
    /\ last.fn = "Radio.receive"
    /\ last.rx_state = "COLLIDED"
    /\ rx[last.sta].state = "COLLIDED"
    /\ Cardinality(rx[last.sta].rxbuf) = 2
    /\ rx[last.sta].num_collisions = 1
    /\ env.frames >= 3
    /\ failed = ""

\* C35: a station's Radio never starts a transmission while an earlier
\* transmission of its own (DATA or ACK) is still in progress; the
\* Transmitter is never in TX while the local Receiver is in WAIT_SEND_ACK
\* or SEND_ACK, and the assertion at the end of Receiver.start_transmit
\* never fails.
C35_OneOwnTransmission ==
    /\ [](/\ failed # "AssertionError: start_transmit in WAIT_SEND_ACK"
          /\ \A s \in net.built :
                 /\ CountEvents(events, "Radio.handle_frame_transmitted", s)
                        = IF tx[s].state = "TX" \/ rx[s].state = "SEND_ACK"
                          THEN 1 ELSE 0
                 /\ tx[s].state = "TX"
                        => rx[s].state \in {"TX1", "TX2"}
                 /\ rx[s].state \in {"TX1", "TX2"} => tx[s].state = "TX"
                 /\ rx[s].state \in {"WAIT_SEND_ACK", "SEND_ACK"}
                        => /\ channel[s].is_busy
                           /\ tx[s].state \in {"IDLE", "BUSY", "WAIT_ACK"})
    /\ [][\A s \in net.built :
              (/\ events # <<>>
               /\ Handles(Head(events).fn)
               /\ TransmitCalls(s) > 0) =>
                  /\ TransmitCalls(s) = 1
                  /\ Head(events).sta = s
                  /\ Head(events).fn \in {"Transmitter.handle_backoff_timeout",
                                          "Receiver.handle_timeout"}
                  /\ CountEvents(Pop(World).events,
                                 "Radio.handle_frame_transmitted", s) = 0
                  /\ FrameStarts(Pop(World).events, s) = {}
                  /\ tx[s].state # "TX"
                  /\ rx[s].state \notin {"TX1", "TX2", "SEND_ACK"}
                  /\ failed' = ""]_vars

\* The Transmitter got a packet while the Receiver was sending an ACK and
\* waits in BUSY for the end of the ACK.
C35_Witness ==
    /\ last.fn = "Transmitter.handle_message"
    /\ rx[last.sta].state = "SEND_ACK"
    /\ last.tx_state = "IDLE"
    /\ tx[last.sta].state = "BUSY"
    /\ CountEvents(events, "Radio.handle_frame_transmitted", last.sta) = 1
    /\ channel[last.sta].is_busy
    /\ failed = ""

\* C36: a Receiver acknowledges (enters WAIT_SEND_ACK for) a DATA frame only
\* if, at this receiver, no other frame and no own transmission overlapped
\* that frame between its first and last symbol; a frame that shared rxbuf
\* with another frame, or that was in rxbuf during an own transmission, is
\* never acknowledged and never delivered upward.
C36_OnlyCleanFramesAcknowledged ==
    /\ [](\A s \in net.built :
              /\ rx[s].clean \subseteq rx[s].rxbuf
              /\ Cardinality(rx[s].rxbuf) > 1 => rx[s].clean = {}
              /\ rx[s].state \in {"TX1", "TX2", "SEND_ACK"}
                     => rx[s].clean = {})
    /\ [][\A s \in net.built :
              /\ (\/ rx'[s].state = "WAIT_SEND_ACK"
                        /\ rx[s].state # "WAIT_SEND_ACK"
                  \/ rx'[s].cur_tx_pdu \notin {rx[s].cur_tx_pdu, NoPDU}) =>
                     /\ Handles("Radio.handle_frame_received")
                     /\ Head(events).sta = s
                     /\ Head(events).msg \in rx[s].clean
                     /\ Head(events).msg.type = "DATA"
                     /\ Head(events).msg.receiver = s
                     /\ rx'[s].cur_tx_pdu = Head(events).msg
                     /\ rx'[s].state = "WAIT_SEND_ACK"
              /\ up_sent'[s] # up_sent[s] =>
                     /\ Handles("Radio.handle_frame_transmitted")
                     /\ Head(events).sta = s
                     /\ rx[s].state = "SEND_ACK"
                     /\ up_sent'[s]
                            = Append(up_sent[s], rx[s].cur_tx_pdu.packet)
              /\ (/\ Handles("Radio.handle_frame_received")
                  /\ Head(events).sta = s
                  /\ Head(events).msg \notin rx[s].clean) =>
                     /\ rx'[s].state # "WAIT_SEND_ACK"
                            \/ rx[s].state = "WAIT_SEND_ACK"
                     /\ rx'[s].cur_tx_pdu = rx[s].cur_tx_pdu
                     /\ tx'[s].num_sent = tx[s].num_sent]_vars

\* A DATA frame addressed to the station ended that had started while the
\* Receiver was sending an ACK: it is dropped, the Receiver stays IDLE.
C36_Witness ==
    /\ last.fn = "Radio.handle_frame_received"
    /\ last.msg.type = "DATA"
    /\ last.msg.receiver = last.sta
    /\ last.rx_state = "IDLE"
    /\ rx[last.sta].state = "IDLE"
    /\ rx[last.sta].rxbuf = {}
    /\ rx[last.sta].num_received = 1
    /\ rx[last.sta].num_collisions = 0
    /\ last.msg.packet \notin {up_sent[last.sta][i] :
                                  i \in DOMAIN up_sent[last.sta]}
    /\ failed = ""

\* C37: in a network of two stations with a single sender and a fair
\* scheduler loop, every payload handed to the Transmitter is eventually
\* acknowledged: the Transmitter returns to IDLE with num_sent incremented
\* and the remote Receiver has sent the payload upward; a Transmitter gives
\* up a PDU only when its acknowledgement arrives in WAIT_ACK, and what the
\* remote Receiver sends upward is the payload the sender has in service.
C37_EveryPayloadAcknowledged ==
    /\ \A k \in 0..(MaxPackets - 1) :
           (tx[2].pdu # NoPDU /\ tx[2].num_sent = k)
               ~> (/\ tx[2].state = "IDLE"
                   /\ tx[2].pdu = NoPDU
                   /\ tx[2].num_sent = k + 1
                   /\ Len(up_sent[1]) = k + 1)
    /\ [][/\ \A s \in Stations :
                 (tx[s].pdu # NoPDU /\ tx'[s].pdu # tx[s].pdu) =>
                     /\ Handles("Radio.handle_frame_received")
                     /\ Head(events).sta = s
                     /\ Head(events).msg.type = "ACK"
                     /\ Head(events).msg.receiver = s
                     /\ tx[s].state = "WAIT_ACK"
                     /\ tx'[s].pdu = NoPDU
                     /\ tx'[s].state = "IDLE"
                     /\ tx'[s].num_sent = tx[s].num_sent + 1
          /\ up_sent'[1] # up_sent[1] =>
                 /\ tx[2].state = "WAIT_ACK"
                 /\ up_sent'[1] = Append(up_sent[1], tx[2].pdu.packet)]_vars

\* The second payload of the sender was acknowledged: the sender is IDLE
\* again, nothing is in service and the remote Receiver sent both upward.
C37_Witness ==
    /\ last.fn = "Radio.handle_frame_received"
    /\ last.sta = 2
    /\ last.msg.type = "ACK"
    /\ last.tx_state = "WAIT_ACK"
    /\ tx[2].state = "IDLE"
    /\ tx[2].pdu = NoPDU
    /\ tx[2].num_sent = MaxPackets
    /\ Len(up_sent[1]) = MaxPackets
    /\ failed = ""

\* The application data handed to the user of station s, in any stage: the
\* packets the switch sent over 'user' that NetworkService has not handled
\* yet, the data NetworkService sent to the Sink, and the data the Sink got.
HandedToUser(s) ==
    LET ToService(e) == /\ e.sta = s
                        /\ e.fn = "NetworkService.handle_message"
                        /\ e.conn = "network"
        ToSink(e) == e.sta = s /\ e.fn = "Sink.handle_message"
        service == SelectSeq(events, ToService)
        to_sink == SelectSeq(events, ToSink)
    IN  sink[s].received
            \o [i \in DOMAIN to_sink |-> to_sink[i].msg]
            \o [i \in DOMAIN service |-> service[i].msg.data]

\* C38: no packet a source generated is handed to the user connection of
\* the destination station (NetworkService, then the Sink) more than once,
\* also when a MAC sender retransmitted a DATA frame whose ACK was lost: the
\* duplicate a Receiver passes upward is discarded by the OSN check of the
\* NetworkSwitch, which hands nothing to the user in that step.
C38_HandedToUserOnce ==
    /\ [](\A s \in Stations :
              \A i, j \in DOMAIN HandedToUser(s) :
                  i # j => HandedToUser(s)[i] # HandedToUser(s)[j])
    /\ [][\A s \in Stations :
              (/\ Handles("NetworkSwitch.handle_message")
               /\ Head(events).sta = s
               /\ Head(events).conn = "if0"
               /\ \E i, j \in DOMAIN up_sent[s] :
                      /\ i # j
                      /\ up_sent[s][i] = Head(events).msg
                      /\ up_sent[s][j] = Head(events).msg) =>
                  /\ events' = Pop(World).events
                  /\ switch' = switch
                  /\ sink' = sink]_vars

\* The switch of the destination discarded the second copy of a packet that
\* its Receiver had sent upward twice; the Sink has the packet once.
C38_Witness ==
    /\ last.fn = "NetworkSwitch.handle_message"
    /\ last.conn = "if0"
    /\ last.msg.dst = last.sta
    /\ \E i, j \in DOMAIN up_sent[last.sta] :
           i # j /\ up_sent[last.sta][i] = last.msg
                 /\ up_sent[last.sta][j] = last.msg
    /\ Cardinality({i \in DOMAIN sink[last.sta].received :
                        sink[last.sta].received[i] = last.msg.data}) = 1
    /\ CountEvents(events, "NetworkService.handle_message", last.sta) = 0
    /\ CountEvents(events, "Sink.handle_message", last.sta) = 0
    /\ failed = ""

\* The events of handler fn at station p that carry pdu and fire after t.
Scheduled(evs, fn, p, pdu, t) ==
    Cardinality({i \in DOMAIN evs : /\ evs[i].fn = fn
                                    /\ evs[i].sta = p
                                    /\ evs[i].msg = pdu
                                    /\ evs[i].t = t})

\* The events of handler fn at any station.
ScheduledFor(evs, fn) ==
    Cardinality({i \in DOMAIN evs : evs[i].fn = fn})

RadioHandlers ==
    {"Radio.receive", "Radio.handle_frame_received",
     "Radio.handle_frame_transmitted"}

\* The peers of radio s at the connection manager.
PeersOf(s) == {cm.peers[s][i] : i \in DOMAIN cm.peers[s]}

\* The PDU station s hands to Radio.transmit in the step of event e.
Transmitted(e) ==
    IF e.fn = "Transmitter.handle_backoff_timeout"
    THEN tx[e.sta].pdu
    ELSE AckPDU(PHY_HEADER, rx[e.sta].num_acks, e.sta,
                rx[e.sta].cur_tx_pdu.sender)

\* C39: a call of Radio.transmit(pdu) schedules, for every peer of the
\* sender, exactly one Radio.receive(pdu) after distance / speed_of_light,
\* nothing for a radio that is not a peer, and exactly one
\* handle_frame_transmitted of the sender after the duration of the frame;
\* Radio.receive starts the reception and schedules exactly one frame end
\* after the duration of the frame; no other step schedules such events and
\* no step cancels one; at the end of the transmission the Transmitter and
\* the Receiver of the sender are both notified in the same step.
C39_FrameDelivery ==
    [][(events # <<>> /\ Handles(Head(events).fn)) =>
           LET e == Head(events)
               old == Pop(World).events
           IN  /\ \A s \in Stations :
                      TransmitCalls(s) > CountEvents(
                          old, "Radio.handle_frame_transmitted", s) =>
                          LET pdu == Transmitted(e)
                          IN  /\ e.sta = s
                              /\ pdu.sender = s
                              /\ Scheduled(events',
                                     "Radio.handle_frame_transmitted", s,
                                     NoPDU, AirFrame_duration(pdu)) = 1
                              /\ TransmitCalls(s) = 1
                              /\ \A p \in PeersOf(s) :
                                     Scheduled(events', "Radio.receive", p,
                                         pdu, PropagationDelay(World, s, p))
                                     = Scheduled(old, "Radio.receive", p,
                                           pdu, PropagationDelay(World, s, p))
                                       + 1
                              /\ Cardinality(PeersOf(s)) = Len(cm.peers[s])
                              /\ s \notin PeersOf(s)
                              /\ \A p \in Stations \ PeersOf(s) :
                                     CountEvents(events', "Radio.receive", p)
                                         = CountEvents(old, "Radio.receive", p)
                              /\ ScheduledFor(events', "Radio.receive")
                                     = ScheduledFor(old, "Radio.receive")
                                       + Len(cm.peers[s])
               /\ ScheduledFor(events', "Radio.receive")
                      > ScheduledFor(old, "Radio.receive") =>
                      TransmitCalls(e.sta) > CountEvents(
                          old, "Radio.handle_frame_transmitted", e.sta)
               /\ e.fn = "Radio.receive" =>
                      /\ e.msg \in rx'[e.sta].rxbuf
                      /\ Scheduled(events', "Radio.handle_frame_received",
                             e.sta, e.msg, AirFrame_duration(e.msg))
                         = Scheduled(old, "Radio.handle_frame_received",
                               e.sta, e.msg, AirFrame_duration(e.msg)) + 1
               /\ ScheduledFor(events', "Radio.handle_frame_received")
                      = ScheduledFor(old, "Radio.handle_frame_received")
                        + (IF e.fn = "Radio.receive" THEN 1 ELSE 0)
               /\ e.fn = "Radio.handle_frame_received" =>
                      e.msg \notin rx'[e.sta].rxbuf
               /\ \A i \in DOMAIN old :
                      old[i].fn \in RadioHandlers =>
                          Cardinality({j \in DOMAIN events' :
                                           events'[j] = old[i]})
                              >= Cardinality({j \in DOMAIN old :
                                                  old[j] = old[i]})
               /\ e.fn = "Radio.handle_frame_transmitted" =>
                      /\ tx[e.sta].state = "TX" =>
                             tx'[e.sta].state = "WAIT_ACK"
                      /\ rx[e.sta].state \in {"TX1", "TX2", "SEND_ACK"}
                      /\ rx'[e.sta].state \notin {"TX1", "TX2", "SEND_ACK"}
                      /\ tx[e.sta].state = "TX"
                             \/ rx[e.sta].state = "SEND_ACK"
                      /\ failed' = ""]_vars

\* Station 1 of a line of three stations started a DATA frame: station 2,
\* its only peer, is to receive it, station 3 is not.
C39_Witness ==
    /\ last.fn = "Transmitter.handle_backoff_timeout"
    /\ last.sta = 1
    /\ net.kind = "line"
    /\ net.n = 3
    /\ tx[1].state = "TX"
    /\ cm.peers[1] = <<2>>
    /\ Scheduled(events, "Radio.receive", 2, tx[1].pdu,
                 PropagationDelay(World, 1, 2)) = 1
    /\ CountEvents(events, "Radio.receive", 3) = 0
    /\ Scheduled(events, "Radio.handle_frame_transmitted", 1, NoPDU,
                 AirFrame_duration(tx[1].pdu)) = 1
    /\ failed = ""

\* C40: a Queue never holds stored packets and waiting get_next requests at
\* the same time: in every reachable state the packet deque or the request
\* deque is empty, and the length of a queue of finite capacity is between
\* 0 and the capacity.
C40_PacketsOrRequests ==
    \A s \in DOMAIN queue :
        /\ queue[s].packets = <<>> \/ queue[s].data_requests = <<>>
        /\ queue[s].capacity # NoCapacity =>
               /\ 0 <= Len(queue[s].packets)
               /\ Len(queue[s].packets) <= queue[s].capacity

\* A queue of capacity 1 answered a waiting request with the first packet,
\* stored the second and dropped the third: it is full and no request waits.
C40_Witness ==
    /\ last.fn = "Queue.push"
    /\ queue[1].capacity = 1
    /\ Len(queue[1].packets) = 1
    /\ queue[1].data_requests = <<>>
    /\ queue[1].num_arrived = 3
    /\ queue[1].num_dropped = 1
    /\ failed = ""

====
